---- MODULE Spec2Model ----
(***************************************************************************)
(* The concurrent directory scanner of lib/_scanner.py: the filter         *)
(* predicates, the single-directory walker (skim_dir), the worker pool of  *)
(* _TaskManager (begin_scan, _worker, _crawl_dir) and the Scanner facade   *)
(* (_scan_dir, _summarize, shallow_scan, deep_scan, search_scan); the LAN  *)
(* fan-out of server.py and mcp_server.py (search_directory_lan); and the  *)
(* peer discovery of lib/_discover.py.  Each of the three is a             *)
(* specification of its own (Spec, LanSpec, DiscSpec) over the same        *)
(* variables, the other two being idle; FilterSpec applies the two filter  *)
(* predicates to arguments drawn from bounded sets.                        *)
(*                                                                         *)
(* Strings are sequences of one-character strings, so that startswith,     *)
(* lower, substring and suffix tests are computed and not assumed.  A      *)
(* Python dict is a sequence of (key, value) entries in insertion order;   *)
(* the dict objects live in a heap indexed by the path they were created   *)
(* for, so that two references to one dict (the parent's entry and the     *)
(* work item's "bucket") alias as they do in Python.                       *)
(***************************************************************************)
EXTENDS Integers, Sequences, FiniteSets, TLC

\* ------------------------------------------------------------------ bounds

\* Worker ceiling.  The source sets 32; the model scales it down so that a
\* root with more children than workers occurs.
MAX_WORKERS == 2

\* _discover.MAX_CONNS: the probes in flight at once (the source sets 256;
\* scaled down with the number of addresses probed)
MAX_CONNS == 2

\* ----------------------------------------------------------------- strings

UpperChars == <<"A","B","C","D","E","F","G","H","I","J","K","L","M",
                "N","O","P","Q","R","S","T","U","V","W","X","Y","Z">>
LowerChars == <<"a","b","c","d","e","f","g","h","i","j","k","l","m",
                "n","o","p","q","r","s","t","u","v","w","x","y","z">>

\* str.lower(), character by character
LowerChar(c) ==
    IF \E i \in 1..Len(UpperChars) : UpperChars[i] = c
    THEN LowerChars[CHOOSE i \in 1..Len(UpperChars) : UpperChars[i] = c]
    ELSE c

Lower(s) == [i \in 1..Len(s) |-> LowerChar(s[i])]

\* str.startswith / str.endswith / the `in` operator on strings
StartsWith(s, p) == Len(s) >= Len(p) /\ SubSeq(s, 1, Len(p)) = p
EndsWith(s, p) == Len(s) >= Len(p) /\ SubSeq(s, Len(s) - Len(p) + 1, Len(s)) = p
Contains(s, p) == \E i \in 0..(Len(s) - Len(p)) : SubSeq(s, i + 1, i + Len(p)) = p

\* os.path.join(path, name), as os.scandir builds entry.path
Join(path, name) ==
    IF Len(path) > 0 /\ path[Len(path)] = "/"
    THEN path \o name
    ELSE path \o <<"/">> \o name

\* The distinguished keys of a Bucket
KPath  == <<"_","_","p","a","t","h","_","_">>
KFiles == <<"_","_","f","i","l","e","s","_","_">>
KError == <<"_","_","e","r","r","o","r","_","_">>

\* The home directory that expanduser() substitutes for "~"
Home == <<"/","h">>

\* ------------------------------------------------------------ file system

\* Directory ids.  0 is the directory at /h/r, 5 is a directory outside it
\* (/h/o) that only a symbolic link points to.
NoDir == 0 - 1

FileE(n) == [name |-> n, kind |-> "file", to |-> NoDir]
DirE(n, d) == [name |-> n, kind |-> "dir", to |-> d]
\* a symbolic link; to = NoDir when it points to a regular file
LinkE(n, d) == [name |-> n, kind |-> "symlink", to |-> d]

\* The basenames that vary between the file systems checked
PlainNames == [n3 |-> <<"c">>, n4 |-> <<"d">>]
SpecialNames == {KPath, KFiles, KError}
NameChoices ==
    {PlainNames}
    \cup {[PlainNames EXCEPT !.n3 = k] : k \in SpecialNames}
    \cup {[PlainNames EXCEPT !.n4 = k] : k \in SpecialNames}

\* The entries of directory d, in the order os.scandir yields them
Entries(nm, d) ==
    CASE d = 0 -> << DirE(<<"a">>, 1), FileE(<<"f",".","t">>), DirE(<<".","h">>, 2),
                     LinkE(<<"l">>, 5), DirE(nm.n3, 3), FileE(<<"g",".","P","N","G">>) >>
      [] d = 1 -> << FileE(<<".","x">>), DirE(nm.n4, 4), FileE(<<"f",".","P","N","G">>),
                     DirE(<<"e">>, 6) >>
      [] d = 2 -> << FileE(<<"f",".","t">>), LinkE(<<"u","p">>, 0),
                     LinkE(<<"l","f">>, NoDir) >>
      [] d = 3 -> << >>
      [] d = 4 -> << FileE(<<"g",".","P","N","G">>) >>
      [] d = 5 -> << FileE(<<"s",".","t">>) >>
      [] d = 6 -> << >>

\* The absolute path of the two top directories
TopPath(d) == IF d = 5 THEN <<"/","h","/","o">> ELSE <<"/","h","/","r">>

\* dirname and basename of a path
RECURSIVE LastSlashFrom(_, _)
LastSlashFrom(p, i) == IF i = 0 \/ p[i] = "/" THEN i ELSE LastSlashFrom(p, i - 1)
LastSlash(p) == LastSlashFrom(p, Len(p))
DirName(p) == SubSeq(p, 1, LastSlash(p) - 1)
BaseName(p) == SubSeq(p, LastSlash(p) + 1, Len(p))

\* The directory a path names, following symbolic links on the way as the
\* operating system does when a path is opened; NoDir when there is none.
RECURSIVE Resolve(_, _)
Resolve(nm, p) ==
    IF p = TopPath(0) THEN 0
    ELSE IF p = TopPath(5) THEN 5
    ELSE IF LastSlash(p) <= 1 THEN NoDir
    ELSE LET par == Resolve(nm, DirName(p))
             es == IF par = NoDir THEN << >> ELSE Entries(nm, par)
             hit == {i \in 1..Len(es) : es[i].name = BaseName(p)
                                        /\ es[i].kind \in {"dir", "symlink"}
                                        /\ es[i].to # NoDir}
         IN IF hit = {} THEN NoDir ELSE es[CHOOSE i \in hit : TRUE].to

\* os.DirEntry.is_file / is_dir
IsFile(e, follow_symlinks) ==
    \/ e.kind = "file"
    \/ follow_symlinks /\ e.kind = "symlink" /\ e.to = NoDir
\* is_dir that follows symbolic links whatever it is asked
IsDirFollowing(e, follow_symlinks) ==
    \/ e.kind = "dir"
    \/ e.kind = "symlink" /\ e.to # NoDir
IsDir(e, follow_symlinks) ==
    \/ e.kind = "dir"
    \/ follow_symlinks /\ e.kind = "symlink" /\ e.to # NoDir

\* ---------------------------------------------------------------- filters

\* An optional set (None or a set): Python's truth test is false for both
\* None and the empty set.
None == [some |-> FALSE, set |-> {}]
Some(S) == [some |-> TRUE, set |-> S]
Truthy(o) == o.some /\ o.set # {}

\* _ignore_dir comparing names and paths without regard to case
IgnoreDirCaseless(path, name, ignore_dirs, scan_hidden) ==
    \/ \E d \in ignore_dirs : Lower(d) = Lower(name)
    \/ \E d \in ignore_dirs : Lower(d) = Lower(path)
    \/ (~scan_hidden /\ StartsWith(name, <<".">>))

\* _ignore_dir(path, name, ignore_dirs, scan_hidden)
IgnoreDir(path, name, ignore_dirs, scan_hidden) ==
    \/ name \in ignore_dirs
    \/ path \in ignore_dirs
    \/ (~scan_hidden /\ StartsWith(name, <<".">>))

\* _should_consider_file accepting a file that passes either filter
ShouldConsiderFileEither(filename, scan_hidden, search_file_names, search_file_extensions) ==
    IF ~scan_hidden /\ StartsWith(filename, <<".">>) THEN FALSE
    ELSE LET byName == \E to_search \in search_file_names.set :
                           Contains(Lower(filename), Lower(to_search))
             byExt == \E ext \in search_file_extensions.set :
                           EndsWith(Lower(filename), <<".">> \o Lower(ext))
         IN IF Truthy(search_file_names) /\ Truthy(search_file_extensions)
            THEN byName \/ byExt
            ELSE IF Truthy(search_file_names) THEN byName
            ELSE IF Truthy(search_file_extensions) THEN byExt
            ELSE TRUE

\* _should_consider_file(filename, scan_hidden=, search_file_names=,
\* search_file_extensions=)
ShouldConsiderFile(filename, scan_hidden, search_file_names, search_file_extensions) ==
    IF ~scan_hidden /\ StartsWith(filename, <<".">>) THEN FALSE
    ELSE LET byName == \E to_search \in search_file_names.set :
                           Contains(Lower(filename), Lower(to_search))
             byExt == \E ext \in search_file_extensions.set :
                           EndsWith(Lower(filename), <<".">> \o Lower(ext))
         IN IF Truthy(search_file_names) /\ ~byName THEN FALSE
            ELSE IF Truthy(search_file_extensions) THEN byExt
            ELSE TRUE

\* ------------------------------------------------------------------ dicts

StrV(s) == [t |-> "str", v |-> s]
ListV(l) == [t |-> "list", v |-> l]
DictV(ref) == [t |-> "dict", v |-> ref]

Has(d, k) == \E i \in 1..Len(d) : d[i].k = k
IndexOf(d, k) == CHOOSE i \in 1..Len(d) : d[i].k = k
Get(d, k) == d[IndexOf(d, k)].val
\* d[k] = val: an existing key keeps its place, a new key goes last
Put(d, k, val) ==
    IF Has(d, k) THEN [d EXCEPT ![IndexOf(d, k)] = [k |-> k, val |-> val]]
    ELSE Append(d, [k |-> k, val |-> val])

\* {"__path__": path, "__files__": []}
NewBucket(path) ==
    << [k |-> KPath, val |-> StrV(path)], [k |-> KFiles, val |-> ListV(<< >>)] >>

\* VisitEntry: one iteration of the `for entry in it` loop of skim_dir and
\* of _crawl_dir, for entry e of the directory opened as target_path, writing
\* into the dict b of heap h.  The result names the new heap, the child
\* Bucket created (if any) and whether the iteration raised AttributeError
\* (list.append on a "__files__" that is no longer a list).
VisitEntry(h, b, target_path, e, c) ==
    LET entry_path == Join(target_path, e.name)
        files == Get(h[b], KFiles)
    IN IF IsFile(e, FALSE)
          /\ ShouldConsiderFile(e.name, c.scan_hidden_files,
                                c.search_file_names, c.search_file_extensions)
       THEN IF files.t = "list"
            THEN [heap |-> [h EXCEPT ![b] = Put(@, KFiles, ListV(Append(files.v, e.name)))],
                  child |-> << >>, raised |-> FALSE]
            ELSE [heap |-> h, child |-> << >>, raised |-> TRUE]
       ELSE IF IsDir(e, FALSE)
               /\ ~IgnoreDir(entry_path, e.name, c.ignore_dirs, c.scan_hidden_dirs)
       THEN [heap |-> (entry_path :> NewBucket(entry_path))
                      @@ [h EXCEPT ![b] = Put(@, e.name, DictV(entry_path))],
             child |-> << [path |-> entry_path, bucket |-> entry_path] >>,
             raised |-> FALSE]
       ELSE [heap |-> h, child |-> << >>, raised |-> FALSE]

\* except OSError as e: bucket["__error__"] = str(e)
ErrText == <<"OSError">>
\* the error recorded on the parent directory's Bucket instead
SetErrorOnParent(h, b) ==
    IF DirName(b) \in DOMAIN h
    THEN [h EXCEPT ![DirName(b)] = Put(@, KError, StrV(ErrText))]
    ELSE h
SetError(h, b) == [h EXCEPT ![b] = Put(@, KError, StrV(ErrText))]

\* skim_dir(path) when the directory yields its first n entries and then
\* either ends (fails = FALSE) or raises OSError (fails = TRUE).  The result
\* dict is allocated in the heap under its path.
RECURSIVE SkimLoop(_, _, _, _, _, _)
SkimLoop(h, b, es, i, n, c) ==
    IF i > n THEN [heap |-> h, raised |-> FALSE]
    ELSE LET r == VisitEntry(h, b, b, es[i], c)
         IN IF r.raised THEN [heap |-> r.heap, raised |-> TRUE]
            ELSE SkimLoop(r.heap, b, es, i + 1, n, c)

SkimDir(h, nm, path, n, fails, c) ==
    LET d == Resolve(nm, path)
        h0 == (path :> NewBucket(path)) @@ h
        es == IF d = NoDir THEN << >> ELSE Entries(nm, d)
        r == SkimLoop(h0, path, es, 1, n, c)
    IN IF r.raised THEN r
       ELSE IF fails \/ d = NoDir THEN [heap |-> SetError(r.heap, path), raised |-> FALSE]
       ELSE r

\* ---------------------------------------------------------- configuration

\* Scanner.__init__: a directory that starts with neither "~" nor "/" is
\* taken relative to the home directory, and "~" is expanded.
ExpandUser(p) ==
    IF p = <<"~">> THEN Home
    ELSE IF StartsWith(p, <<"~","/">>) THEN Home \o SubSeq(p, 2, Len(p))
    ELSE p
Normalize(dir) ==
    IF ~StartsWith(dir, <<"~">>) /\ ~StartsWith(dir, <<"/">>)
    THEN ExpandUser(<<"~","/">> \o dir)
    ELSE ExpandUser(dir)

\* The directory arguments checked: relative to home, with "~", absolute,
\* one that names nothing and one that names a regular file.
Directories ==
    { <<"r">>, <<"~","/","r">>, <<"/","h","/","r">>, <<"/","q">>,
      <<"r","/","f",".","t">> }

DefaultFilePart ==
    [scan_hidden_files |-> TRUE, search_file_names |-> None,
     search_file_extensions |-> None]
FileParts ==
    [scan_hidden_files : BOOLEAN,
     search_file_names : {None, Some({<<"F">>})},
     search_file_extensions : {None, Some({<<"p","n","g">>})}]
    \cup {[scan_hidden_files |-> TRUE, search_file_names |-> Some({}),
           search_file_extensions |-> Some({})]}
DefaultDirPart == [scan_hidden_dirs |-> TRUE, ignore_dirs |-> {}]
DirParts ==
    [scan_hidden_dirs : BOOLEAN,
     ignore_dirs : { {}, {<<"c">>}, {<<"/","h","/","r","/","a","/","d">>},
                     {<<"a">>, <<"c">>} }]

DefaultConfig ==
    [scan_hidden_files |-> TRUE, search_file_names |-> None,
     search_file_extensions |-> None, scan_hidden_dirs |-> TRUE, ignore_dirs |-> {}]

\* The configurations checked: every file filter with the default directory
\* filter, and every directory filter with the default file filter.
Configs ==
    { [scan_hidden_files |-> f.scan_hidden_files,
       search_file_names |-> f.search_file_names,
       search_file_extensions |-> f.search_file_extensions,
       scan_hidden_dirs |-> d.scan_hidden_dirs,
       ignore_dirs |-> d.ignore_dirs] :
      <<f, d>> \in ((FileParts \X {DefaultDirPart}) \cup ({DefaultFilePart} \X DirParts)) }

\* ------------------------------------------------------------------ state

VARIABLES
    directory,          \* Scanner(directory, config): the directory argument
    config,             \* the scan configuration
    names,              \* the basenames of the file system scanned
    heap,               \* the dict objects, by the path they were created for
    result_bucket,      \* begin_scan's result_bucket (a heap reference)
    scan_result,        \* Scanner._scan_result (a heap reference, << >> for {})
    dpc,                \* where the driver (deep_scan) is
    work_q,             \* _TaskManager._work_q: the queued items
    unfinished,         \* the queue's count of unacknowledged items
    workers_to_deploy,  \* _TaskManager._workers_to_deploy
    wpc,                \* each thread's state
    crawl_targets,      \* each worker's crawl_targets list
    target,             \* each worker's (target_path, target_bucket) and how
                        \* many entries of it have been read
    enumerated,         \* how the enumeration of each Bucket's directory ended:
                        \* "ok" (the iterator was exhausted) or "failed" (OSError)
    summary,            \* what Scanner.summary returned: << >> before it is read,
                        \* then <<error_count, dir_count, file_count>>
    shallow_result,     \* what shallow_scan returned (<< >> before it returns)
    search_result,      \* search_scan: its search_result dict and how it ended
    servers,            \* _LAN_FILE_SYSTEM_SERVERS: the discovered peers
    lpc,                \* where the search_directory_lan handler is
    fetch,              \* each peer's _fetch task: its state, the reply it met
                        \* and the item it returned
    results,            \* what asyncio.gather returned to the handler
    host_results,       \* the handler's host_results dict
    interfaces,         \* netifaces: the local interfaces' (addr, netmask)
    subnets,            \* _discover's subnets
    disc_pc,            \* where _discover is
    probes,             \* each probe task's state and the status it met
    permits,            \* the semaphore's permits in use
    found,              \* _discover's found set (the hits of every probe)
    endpoint,           \* which search_directory_lan serves the request: the
                        \* HTTP endpoint of server.py or the tool of mcp_server.py
    request,            \* the search configuration the caller supplied
    payload,            \* the JSON body the handler posts to every peer
    fin,                \* the arguments of one call of a filter predicate
    fout                \* what the call returned ("unset" before it returns)

scanVars == <<directory, config, names, heap, result_bucket, scan_result, dpc, work_q,
              unfinished, workers_to_deploy, wpc, crawl_targets, target, enumerated,
              summary, shallow_result, search_result>>
lanVars == <<servers, lpc, fetch, results, host_results, endpoint, request, payload>>
discVars == <<interfaces, subnets, disc_pc, probes, permits, found>>
vars == <<scanVars, lanVars, discVars, fin, fout>>

Workers == 1..MAX_WORKERS

\* search_scan has not been called
NoSearch == [state |-> "none", result |-> << >>]

\* A request body carrying the five fields of a search configuration
SearchRequest(path, hidden_dirs, hidden_files, file_names, file_extensions) ==
    [path |-> path, scan_hidden_dirs |-> hidden_dirs,
     scan_hidden_files |-> hidden_files, search_file_names |-> file_names,
     search_file_extensions |-> file_extensions]

\* The body that names only a path: every other field at its default
DefaultRequest == SearchRequest(<<"~","/","r">>, FALSE, TRUE, None, None)

\* No request to search_directory_lan is being served
LanIdle ==
    /\ servers = {}
    /\ lpc = "idle"
    /\ fetch = << >>
    /\ results = << >>
    /\ host_results = << >>
    /\ endpoint = "server"
    /\ request = DefaultRequest
    /\ payload = [path |-> << >>]

\* No filter predicate is being called; a call that has not returned
NoneYet == << >>
FilterIdle ==
    /\ fin = [fn |-> "none"]
    /\ fout = NoneYet

\* No discovery is running
DiscIdle ==
    /\ interfaces = << >>
    /\ subnets = {}
    /\ disc_pc = "idle"
    /\ probes = << >>
    /\ permits = 0
    /\ found = {}

root_path == Normalize(directory)

Min(a, b) == IF a < b THEN a ELSE b

Init ==
    /\ directory \in Directories
    /\ config \in Configs
    /\ names \in NameChoices
    \* every configuration and file system is scanned through the relative
    \* spelling of the root; the other spellings name the same directory and
    \* are scanned with the default configuration
    /\ directory # <<"r">> => config = DefaultConfig /\ names = PlainNames
    /\ heap = << >>
    /\ result_bucket = << >>
    /\ scan_result = << >>
    /\ dpc = "init"
    /\ work_q = << >>
    /\ unfinished = 0
    /\ workers_to_deploy = 0
    /\ wpc = [w \in Workers |-> "unstarted"]
    /\ crawl_targets = [w \in Workers |-> << >>]
    /\ target = [w \in Workers |-> << >>]
    /\ enumerated = << >>
    /\ summary = << >>
    /\ shallow_result = << >>
    /\ search_result = NoSearch
    /\ LanIdle
    /\ DiscIdle
    /\ FilterIdle

\* ----------------------------------------------------------------- driver

\* _scan_dir without its check of the root path: begin_scan skims the
\* missing root and returns the Bucket with the OSError's text
ScanDirUnchecked ==
    /\ dpc = "init"
    /\ Resolve(names, root_path) = NoDir
    /\ heap' = SkimDir(heap, names, root_path, 0, TRUE, config).heap
    /\ scan_result' = root_path
    /\ dpc' = "done"
    /\ UNCHANGED <<directory, config, names, result_bucket, work_q, unfinished,
                   workers_to_deploy, wpc, crawl_targets, target, enumerated, summary>>
    /\ UNCHANGED <<shallow_result, search_result, lanVars, discVars, fin, fout>>

\* Scanner._scan_dir when the root path is not an existing directory
ScanDirMissing ==
    /\ dpc = "init"
    /\ Resolve(names, root_path) = NoDir
    /\ heap' = (root_path :> Put(NewBucket(root_path), KError,
                                 StrV(<<"Provided path '">> \o root_path
                                      \o <<"' does not exist.">>)))
    /\ scan_result' = root_path
    /\ dpc' = "done"
    /\ UNCHANGED <<directory, config, names, result_bucket, work_q, unfinished,
                   workers_to_deploy, wpc, crawl_targets, target, enumerated, summary>>
    /\ UNCHANGED <<shallow_result, search_result, lanVars, discVars, fin, fout>>

\* begin_scan, lines 164-167: skim the root; a root Bucket with "__error__"
\* is returned at once.  An AttributeError raised by the skim leaves
\* begin_scan, _scan_dir and deep_scan.
Skim ==
    /\ dpc = "init"
    /\ Resolve(names, root_path) # NoDir
    /\ \E n \in 0..Len(Entries(names, Resolve(names, root_path))), fails \in BOOLEAN :
        /\ ~fails => n = Len(Entries(names, Resolve(names, root_path)))
        /\ LET r == SkimDir(heap, names, root_path, n, fails, config)
           IN IF r.raised
              THEN /\ dpc' = "raised"
                   /\ UNCHANGED <<heap, result_bucket, scan_result, enumerated>>
              ELSE /\ heap' = r.heap
                   /\ result_bucket' = root_path
                   /\ enumerated' = (root_path :> IF fails THEN "failed" ELSE "ok")
                                     @@ enumerated
                   /\ IF Has(r.heap[root_path], KError)
                      THEN scan_result' = root_path /\ dpc' = "done"
                      ELSE scan_result' = scan_result /\ dpc' = "skimmed"
    /\ UNCHANGED <<directory, config, names, work_q, unfinished,
                   workers_to_deploy, wpc, crawl_targets, target, summary>>
    /\ UNCHANGED <<shallow_result, search_result, lanVars, discVars, fin, fout>>

\* begin_scan putting every child of the root twice
RootItemsTwice(h, rb) ==
    LET d == h[rb]
        idx == {i \in 1..Len(d) : d[i].val.t = "dict"}
        F[i \in 0..Len(d)] ==
            IF i = 0 THEN << >>
            ELSE IF i \in idx
                 THEN F[i - 1] \o
                      << [path |-> Get(h[d[i].val.v], KPath).v, bucket |-> d[i].val.v],
                         [path |-> Get(h[d[i].val.v], KPath).v, bucket |-> d[i].val.v] >>
                 ELSE F[i - 1]
    IN F[Len(d)]

\* The work items begin_scan puts: one per dict-valued entry of the root
RootItems(h, rb) ==
    LET d == h[rb]
        idx == {i \in 1..Len(d) : d[i].val.t = "dict"}
        F[i \in 0..Len(d)] ==
            IF i = 0 THEN << >>
            ELSE IF i \in idx
                 THEN Append(F[i - 1], [path |-> Get(h[d[i].val.v], KPath).v,
                                        bucket |-> d[i].val.v])
                 ELSE F[i - 1]
    IN F[Len(d)]

\* begin_scan starting a single thread whatever the root's width
DeploySingle ==
    /\ dpc = "skimmed"
    /\ LET items == RootItems(heap, result_bucket)
           n == Min(Len(items), 1)
       IN /\ work_q' = work_q \o items
          /\ unfinished' = unfinished + Len(items)
          /\ workers_to_deploy' = n
          /\ wpc' = [w \in Workers |-> IF w <= n THEN "waiting" ELSE wpc[w]]
    /\ dpc' = "joining"
    /\ UNCHANGED <<directory, config, names, heap, result_bucket, scan_result,
                   crawl_targets, target, enumerated, summary>>
    /\ UNCHANGED <<shallow_result, search_result, lanVars, discVars, fin, fout>>

\* begin_scan, lines 169-186: queue the root's children and start the threads
Deploy ==
    /\ dpc = "skimmed"
    /\ LET items == RootItems(heap, result_bucket)
           n == Min(Len(items), MAX_WORKERS)
       IN /\ work_q' = work_q \o items
          /\ unfinished' = unfinished + Len(items)
          /\ workers_to_deploy' = n
          /\ wpc' = [w \in Workers |-> IF w <= n THEN "waiting" ELSE wpc[w]]
    /\ dpc' = "joining"
    /\ UNCHANGED <<directory, config, names, heap, result_bucket, scan_result,
                   crawl_targets, target, enumerated, summary>>
    /\ UNCHANGED <<shallow_result, search_result, lanVars, discVars, fin, fout>>

Sentinel == [path |-> << >>, bucket |-> << >>]

\* work_q.join() can return: every item put has been acknowledged
BarrierOpen == dpc = "joining" /\ unfinished = 0

\* every t.join() can return: each started thread has ended
ThreadsEnded ==
    /\ dpc = "killing"
    /\ \A w \in 1..workers_to_deploy : wpc[w] \in {"terminated", "crashed"}

\* begin_scan without line 188: the sentinels are put without waiting for
\* the queue's join
KillSwitchNoJoin ==
    /\ dpc = "joining"
    /\ work_q' = work_q \o [i \in 1..workers_to_deploy |-> Sentinel]
    /\ unfinished' = unfinished + workers_to_deploy
    /\ dpc' = "killing"
    /\ UNCHANGED <<directory, config, names, heap, result_bucket, scan_result,
                   workers_to_deploy, wpc, crawl_targets, target, enumerated, summary>>
    /\ UNCHANGED <<shallow_result, search_result, lanVars, discVars, fin, fout>>

\* begin_scan, lines 188-192: work_q.join() returns once every item put has
\* been acknowledged; then one {"path": None} is put per thread
KillSwitch ==
    /\ BarrierOpen
    /\ work_q' = work_q \o [i \in 1..workers_to_deploy |-> Sentinel]
    /\ unfinished' = unfinished + workers_to_deploy
    /\ dpc' = "killing"
    /\ UNCHANGED <<directory, config, names, heap, result_bucket, scan_result,
                   workers_to_deploy, wpc, crawl_targets, target, enumerated, summary>>
    /\ UNCHANGED <<shallow_result, search_result, lanVars, discVars, fin, fout>>

\* begin_scan, lines 193-196, and _scan_dir's assignment of the result
JoinThreads ==
    /\ ThreadsEnded
    /\ scan_result' = result_bucket
    /\ dpc' = "done"
    /\ UNCHANGED <<directory, config, names, heap, result_bucket, work_q, unfinished,
                   workers_to_deploy, wpc, crawl_targets, target, enumerated, summary>>
    /\ UNCHANGED <<shallow_result, search_result, lanVars, discVars, fin, fout>>

\* ---------------------------------------------------------------- workers

\* work_q.get(timeout=1) returns an item to worker w
ItemReady(w) == wpc[w] = "waiting" /\ work_q # << >>

\* worker w is inside _crawl_dir's loop over a target
Crawling(w) == wpc[w] = "working" /\ target[w] # << >>

\* work_q.get(timeout=1) raises Empty: the loop continues
WorkerTimeout(w) ==
    /\ wpc[w] = "waiting"
    /\ work_q = << >>
    /\ UNCHANGED vars

\* _worker, lines 147-149: an item whose path is None ends the thread
WorkerExit(w) ==
    /\ ItemReady(w)
    /\ Head(work_q).path = << >>
    /\ work_q' = Tail(work_q)
    /\ unfinished' = unfinished - 1
    /\ wpc' = [wpc EXCEPT ![w] = "terminated"]
    /\ UNCHANGED <<directory, config, names, heap, result_bucket, scan_result, dpc,
                   workers_to_deploy, crawl_targets, target, enumerated, summary>>
    /\ UNCHANGED <<shallow_result, search_result, lanVars, discVars, fin, fout>>

\* os.scandir(target_path): the directory the path names is opened once, when
\* the target is popped; dir is NoDir when there is none (the open raises).
OpenTarget(path, bucket) ==
    [path |-> path, bucket |-> bucket, i |-> 0, dir |-> Resolve(names, path)]

\* The entries the open directory yields
TargetEntries(t) == IF t.dir = NoDir THEN << >> ELSE Entries(names, t.dir)

\* The worker's re-initialisation of the Bucket it is handed (lines 151-153)
ReInit(h, params) ==
    [h EXCEPT ![params.bucket] =
        Put(Put(@, KPath, StrV(params.path)), KFiles, ListV(<< >>))]

\* _worker acknowledging an item without crawling it whenever another
\* thread is crawling
WorkerTakeUnlessBusy(w) ==
    /\ ItemReady(w)
    /\ Head(work_q).path # << >>
    /\ IF \E v \in Workers \ {w} : wpc[v] = "working"
       THEN /\ unfinished' = unfinished - 1
            /\ UNCHANGED <<heap, target, crawl_targets, wpc>>
       ELSE /\ LET params == Head(work_q)
                   h1 == ReInit(heap, params)
               IN /\ heap' = h1
                  /\ target' = [target EXCEPT ![w] =
                        << OpenTarget(Get(h1[params.bucket], KPath).v, params.bucket) >>]
            /\ crawl_targets' = [crawl_targets EXCEPT ![w] = << >>]
            /\ wpc' = [wpc EXCEPT ![w] = "working"]
            /\ UNCHANGED unfinished
    /\ work_q' = Tail(work_q)
    /\ UNCHANGED <<directory, config, names, result_bucket, scan_result, dpc,
                   workers_to_deploy, enumerated, summary>>
    /\ UNCHANGED <<shallow_result, search_result, lanVars, discVars, fin, fout>>

\* _worker, lines 143 and 151-155, and _crawl_dir up to its first pop:
\* take an item, re-initialise its Bucket, make it the first crawl target
WorkerTake(w) ==
    /\ ItemReady(w)
    /\ Head(work_q).path # << >>
    /\ LET params == Head(work_q)
           h1 == ReInit(heap, params)
       IN /\ heap' = h1
          /\ target' = [target EXCEPT ![w] =
                 << OpenTarget(Get(h1[params.bucket], KPath).v, params.bucket) >>]
    /\ work_q' = Tail(work_q)
    /\ crawl_targets' = [crawl_targets EXCEPT ![w] = << >>]
    /\ wpc' = [wpc EXCEPT ![w] = "working"]
    /\ UNCHANGED <<directory, config, names, result_bucket, scan_result, dpc,
                   unfinished, workers_to_deploy, enumerated, summary>>
    /\ UNCHANGED <<shallow_result, search_result, lanVars, discVars, fin, fout>>

\* _crawl_dir after a target is finished: pop the next target, or return to
\* _worker, which acknowledges the item (line 157) and waits again
Advance(w, cts) ==
    IF cts # << >>
    THEN /\ target' = [target EXCEPT ![w] =
                << OpenTarget(Head(cts).path, Head(cts).bucket) >>]
         /\ crawl_targets' = [crawl_targets EXCEPT ![w] = Tail(cts)]
         /\ UNCHANGED <<wpc, unfinished>>
    ELSE /\ target' = [target EXCEPT ![w] = << >>]
         /\ crawl_targets' = [crawl_targets EXCEPT ![w] = << >>]
         /\ wpc' = [wpc EXCEPT ![w] = "waiting"]
         /\ unfinished' = unfinished - 1

\* _crawl_dir, lines 112-134: one entry of the current target.  An
\* AttributeError is not caught anywhere: it ends the thread, and the item
\* is never acknowledged.
CrawlEntry(w) ==
    /\ Crawling(w)
    /\ LET t == target[w][1]
           es == TargetEntries(t)
       IN /\ t.i < Len(es)
          /\ LET r == VisitEntry(heap, t.bucket, t.path, es[t.i + 1], config)
             IN IF r.raised
                THEN /\ wpc' = [wpc EXCEPT ![w] = "crashed"]
                     /\ UNCHANGED <<heap, crawl_targets, target>>
                ELSE /\ heap' = r.heap
                     /\ crawl_targets' = [crawl_targets EXCEPT ![w] = @ \o r.child]
                     /\ target' = [target EXCEPT ![w] = << [t EXCEPT !.i = t.i + 1] >>]
                     /\ UNCHANGED wpc
    /\ UNCHANGED <<directory, config, names, result_bucket, scan_result, dpc, work_q,
                   unfinished, workers_to_deploy, enumerated, summary>>
    /\ UNCHANGED <<shallow_result, search_result, lanVars, discVars, fin, fout>>

\* _crawl_dir, lines 136-137: os.scandir or the iteration raises OSError,
\* at the open or after any number of entries
CrawlFail(w) ==
    /\ Crawling(w)
    /\ heap' = SetError(heap, target[w][1].bucket)
    /\ enumerated' = (target[w][1].bucket :> "failed") @@ enumerated
    /\ Advance(w, crawl_targets[w])
    /\ UNCHANGED <<directory, config, names, result_bucket, scan_result, dpc, work_q,
                   workers_to_deploy, summary>>
    /\ UNCHANGED <<shallow_result, search_result, lanVars, discVars, fin, fout>>

\* _crawl_dir appending a target it has just iterated to its list again,
\* once
CrawlDoneRescan(w) ==
    /\ Crawling(w)
    /\ target[w][1].dir # NoDir
    /\ target[w][1].i = Len(TargetEntries(target[w][1]))
    /\ enumerated' = (target[w][1].bucket :> "ok") @@ enumerated
    /\ IF target[w][1].bucket \in DOMAIN enumerated
       THEN Advance(w, crawl_targets[w])
       ELSE Advance(w, Append(crawl_targets[w],
                              [path |-> target[w][1].path,
                               bucket |-> target[w][1].bucket]))
    /\ UNCHANGED <<directory, config, names, heap, result_bucket, scan_result, dpc,
                   work_q, workers_to_deploy, summary>>
    /\ UNCHANGED <<shallow_result, search_result, lanVars, discVars, fin, fout>>

\* _crawl_dir: the iteration over the current target ends
CrawlDone(w) ==
    /\ Crawling(w)
    /\ target[w][1].dir # NoDir
    /\ target[w][1].i = Len(TargetEntries(target[w][1]))
    /\ enumerated' = (target[w][1].bucket :> "ok") @@ enumerated
    /\ Advance(w, crawl_targets[w])
    /\ UNCHANGED <<directory, config, names, heap, result_bucket, scan_result, dpc,
                   work_q, workers_to_deploy, summary>>
    /\ UNCHANGED <<shallow_result, search_result, lanVars, discVars, fin, fout>>

\* -------------------------------------------------------- sequential run

\* _crawl_dir's `for entry in it` loop run to its end over the entries es of
\* target t, from entry i on; kids are the crawl targets appended
RECURSIVE CrawlLoop(_, _, _, _, _, _)
CrawlLoop(h, t, es, i, kids, c) ==
    IF i > Len(es) THEN [heap |-> h, kids |-> kids, raised |-> FALSE]
    ELSE LET r == VisitEntry(h, t.bucket, t.path, es[i], c)
         IN IF r.raised THEN [heap |-> r.heap, kids |-> kids, raised |-> TRUE]
            ELSE CrawlLoop(r.heap, t, es, i + 1, kids \o r.child, c)

\* _crawl_dir's `while crawl_targets` loop run to its end when no directory
\* that exists raises OSError
RECURSIVE CrawlDir(_, _, _, _)
CrawlDir(h, nm, cts, c) ==
    IF cts = << >> THEN [heap |-> h, raised |-> FALSE]
    ELSE LET t == Head(cts)
             d == Resolve(nm, t.path)
         IN IF d = NoDir THEN CrawlDir(SetError(h, t.bucket), nm, Tail(cts), c)
            ELSE LET r == CrawlLoop(h, t, Entries(nm, d), 1, << >>, c)
                 IN IF r.raised THEN [heap |-> r.heap, raised |-> TRUE]
                    ELSE CrawlDir(r.heap, nm, Tail(cts) \o r.kids, c)

\* One thread running _worker over the queued items, in queue order
RECURSIVE RunItems(_, _, _, _)
RunItems(h, nm, items, c) ==
    IF items = << >> THEN [heap |-> h, raised |-> FALSE]
    ELSE LET h1 == ReInit(h, Head(items))
             first == [path |-> Get(h1[Head(items).bucket], KPath).v,
                       bucket |-> Head(items).bucket]
             r == CrawlDir(h1, nm, << first >>, c)
         IN IF r.raised THEN r ELSE RunItems(r.heap, nm, Tail(items), c)

\* begin_scan of an existing root with a single thread and no OSError: the
\* heap it leaves, or raised when an AttributeError stops it
DeepScanSequential(nm, root, c) ==
    LET s == SkimDir(<< >>, nm, root, Len(Entries(nm, Resolve(nm, root))), FALSE, c)
    IN IF s.raised \/ Has(s.heap[root], KError) THEN s
       ELSE RunItems(s.heap, nm, RootItems(s.heap, root), c)

\* ---------------------------------------------------------------- summary

\* len(x) of a dict value: of a string, a list or a dict
LenV(h, val) == IF val.t = "dict" THEN Len(h[val.v]) ELSE Len(val.v)

\* a + b on (error_count, dir_count, file_count)
Add3(a, b) == <<a[1] + b[1], a[2] + b[2], a[3] + b[3]>>

\* Scanner._summarize(bucket): (error_count, dir_count, file_count)
RECURSIVE Summarize(_, _)
Summarize(h, bucket) ==
    LET d == h[bucket]
        F[i \in 0..Len(d)] ==
            IF i = 0 THEN <<0, Len(d) - 2, LenV(h, Get(d, KFiles))>>
            ELSE IF d[i].val.t = "dict"
                 THEN Add3(F[i - 1], Summarize(h, d[i].val.v))
                 ELSE F[i - 1]
    IN IF Has(d, KError) THEN <<1, 0, 0>> ELSE F[Len(d)]

\* Scanner.summary, read after deep_scan has returned
Summary ==
    /\ dpc = "done"
    /\ summary = << >>
    /\ search_result = NoSearch
    /\ summary' = Summarize(heap, scan_result)
    /\ UNCHANGED <<directory, config, names, heap, result_bucket, scan_result, dpc,
                   work_q, unfinished, workers_to_deploy, wpc, crawl_targets, target,
                   enumerated>>
    /\ UNCHANGED <<shallow_result, search_result, lanVars, discVars, fin, fout>>

\* ------------------------------------------------------ search and shallow

\* search_scan's _compile_result(bucket), adding to acc (the search_result
\* dict so far).  A "__path__" that is a dict cannot be a key: the
\* assignment raises TypeError.  Any non-empty value of "__files__" counts
\* as true (a Bucket in its place always has two keys).
RECURSIVE CompileResult(_, _, _)
CompileResult(h, bucket, acc) ==
    LET d == h[bucket]
        files == Get(d, KFiles)
        path == Get(d, KPath)
        a1 == IF LenV(h, files) = 0 THEN acc
              ELSE IF path.t # "str" THEN [state |-> "raised", result |-> acc.result]
              ELSE [state |-> acc.state, result |-> Put(acc.result, path.v, files)]
        F[i \in 0..Len(d)] ==
            IF i = 0 THEN a1
            ELSE IF d[i].val.t = "dict"
                 THEN CompileResult(h, d[i].val.v, F[i - 1])
                 ELSE F[i - 1]
    IN IF acc.state = "raised" \/ Has(d, KError) THEN acc ELSE F[Len(d)]

\* search_scan, after its deep_scan has returned (lines 338-356)
SearchScan ==
    /\ dpc = "done"
    /\ summary = << >>
    /\ search_result = NoSearch
    /\ search_result' = CompileResult(heap, scan_result,
                                      [state |-> "returned", result |-> << >>])
    /\ UNCHANGED <<directory, config, names, heap, result_bucket, scan_result, dpc,
                   work_q, unfinished, workers_to_deploy, wpc, crawl_targets, target,
                   enumerated, summary, shallow_result, lanVars, discVars, fin, fout>>

\* The keys of shallow_scan's result
PathKey == <<"p","a","t","h">>
DirsKey == <<"d","i","r","s">>
FilesKey == <<"f","i","l","e","s">>

\* shallow_scan's loop over the keys of the skimmed Bucket (lines 281-297)
Project(h, b) ==
    LET d == h[b]
        F[i \in 0..Len(d)] ==
            IF i = 0
            THEN << [k |-> PathKey, val |-> StrV(<< >>)],
                    [k |-> DirsKey, val |-> ListV(<< >>)],
                    [k |-> FilesKey, val |-> ListV(<< >>)] >>
            ELSE IF d[i].k = KPath THEN Put(F[i - 1], PathKey, d[i].val)
            ELSE IF d[i].k = KFiles THEN Put(F[i - 1], FilesKey, d[i].val)
            ELSE IF d[i].k = KError THEN Put(F[i - 1], KError, d[i].val)
            ELSE IF d[i].val.t = "dict"
                 THEN Put(F[i - 1], DirsKey,
                          ListV(Append(Get(F[i - 1], DirsKey).v, d[i].k)))
                 ELSE F[i - 1]
    IN F[Len(d)]

\* shallow_scan: skim the root, whether or not it exists, and project the
\* Bucket.  An AttributeError raised by the skim leaves shallow_scan.
ShallowScan ==
    /\ dpc = "init"
    /\ LET es == IF Resolve(names, root_path) = NoDir THEN << >>
                 ELSE Entries(names, Resolve(names, root_path))
       IN \E n \in 0..Len(es), fails \in BOOLEAN :
            /\ ~fails => n = Len(es)
            /\ LET r == SkimDir(heap, names, root_path, n, fails, config)
               IN IF r.raised
                  THEN /\ dpc' = "raised"
                       /\ UNCHANGED <<heap, enumerated, shallow_result>>
                  ELSE /\ heap' = r.heap
                       /\ enumerated' =
                            (root_path :> IF fails \/ Resolve(names, root_path) = NoDir
                                          THEN "failed" ELSE "ok") @@ enumerated
                       /\ shallow_result' = Project(r.heap, root_path)
                       /\ dpc' = "shallow"
    /\ UNCHANGED <<directory, config, names, result_bucket, scan_result, work_q,
                   unfinished, workers_to_deploy, wpc, crawl_targets, target, summary,
                   search_result, lanVars, discVars, fin, fout>>

\* ---------------------------------------------------------- LAN fan-out

\* No scan is in progress: the scanner's state while the server only serves
\* search_directory_lan or runs the discovery
ScanIdle ==
    /\ directory = <<"r">> /\ config = DefaultConfig /\ names = PlainNames
    /\ heap = << >> /\ result_bucket = << >> /\ scan_result = << >>
    /\ dpc = "init" /\ work_q = << >> /\ unfinished = 0 /\ workers_to_deploy = 0
    /\ wpc = [w \in Workers |-> "unstarted"]
    /\ crawl_targets = [w \in Workers |-> << >>]
    /\ target = [w \in Workers |-> << >>]
    /\ enumerated = << >> /\ summary = << >>
    /\ shallow_result = << >> /\ search_result = NoSearch

\* The peers a discovery can have found
Peers == {"p1", "p2", "p3"}

\* JSON values of a reply's body
IntJ(n) == [t |-> "int", v |-> n]
NullJ == [t |-> "null", v |-> 0]
StrJ(x) == [t |-> "str", v |-> x]
\* a mapping of directory paths to lists of file names
MapJ(m) == [t |-> "map", v |-> m]

\* The bodies a peer can answer with: not JSON at all, or a JSON object
NotJson == [json |-> FALSE, obj |-> [raw |-> StrJ("<html>")]]
Json(obj) == [json |-> TRUE, obj |-> obj]
Bodies ==
    { NotJson,
      Json([detail |-> StrJ("Not Found")]),
      Json([count |-> IntJ(0), result |-> MapJ(<< >>)]),
      Json([count |-> IntJ(1),
            result |-> MapJ(<< [k |-> <<"/","h","/","r">>,
                               val |-> ListV(<< <<"f",".","t">> >>)] >>)]),
      Json([count |-> NullJ, result |-> MapJ(<< >>)]) }

\* What happens to one session.post(url, json=payload): the connection
\* fails, the request times out, or a response arrives with a status and a
\* body
Statuses == {200, 404, 500}
Replies ==
    { [kind |-> "connection error", status |-> 0, body |-> NotJson],
      [kind |-> "timeout", status |-> 0, body |-> NotJson] }
    \cup [kind : {"response"}, status : Statuses, body : Bodies]

\* str(exc) of the exception _fetch catches; a timeout's text is empty
ExcText(reply) ==
    IF reply.kind = "timeout" THEN ""
    ELSE IF reply.kind = "connection error" THEN "Cannot connect to host"
    ELSE IF ~reply.body.json THEN "Attempt to decode JSON with unexpected mimetype"
    ELSE IF "count" \notin DOMAIN reply.body.obj THEN "'count'"
    ELSE IF "result" \notin DOMAIN reply.body.obj THEN "'result'"
    ELSE "validation error for SearchScanResponse"

\* SearchScanResponse(count=..., result=...)
SearchScanResponse(count, result) == [count |-> count, result |-> result]

\* SearchScanResponse(count=0, result={"__error__": [str(exc)]})
ErrorResponse(text) ==
    SearchScanResponse(0, << [k |-> KError, val |-> ListV(<< text >>)] >>)

\* one element of gather's result list: what the task returned, or the
\* exception it ended with
Item(server, response) == [exc |-> FALSE, server |-> server, response |-> response]
ExcItem(server) == [exc |-> TRUE, server |-> server, response |-> ErrorResponse("")]

\* _fetch with no try/except: a failed call ends the task with its exception
FetchUncaught(server, reply) ==
    IF /\ reply.kind = "response"
       /\ reply.body.json
       /\ {"count", "result"} \subseteq DOMAIN reply.body.obj
       /\ reply.body.obj.count.t = "int"
       /\ reply.body.obj.result.t = "map"
    THEN Item(server, SearchScanResponse(reply.body.obj.count.v,
                                         reply.body.obj.result.v))
    ELSE ExcItem(server)

\* _fetch(server) when its post meets reply: the parsed body when
\* resp.json() decodes it, it has "count" and "result" and they validate;
\* the error response for every exception.  The status is never read.
Fetch(server, reply) ==
    IF /\ reply.kind = "response"
       /\ reply.body.json
       /\ {"count", "result"} \subseteq DOMAIN reply.body.obj
       /\ reply.body.obj.count.t = "int"
       /\ reply.body.obj.result.t = "map"
    THEN Item(server, SearchScanResponse(reply.body.obj.count.v,
                                         reply.body.obj.result.v))
    ELSE Item(server, ErrorResponse(ExcText(reply)))

\* A task that has not met its reply, and the item it has not yet returned
NoReply == [kind |-> "none", status |-> 0, body |-> NotJson]
NoItem == [exc |-> FALSE, server |-> "", response |-> ErrorResponse("")]

\* The search configurations a caller supplies
Requests ==
    { DefaultRequest,
      SearchRequest(<<"~","/","r">>, TRUE, TRUE, Some({<<"f">>}), None),
      SearchRequest(<<"~","/","r">>, FALSE, FALSE, Some({<<"f">>}),
                    Some({<<"t">>})) }

\* ScanConfig(**body): the model has three fields, and pydantic ignores
\* the fields of the body that the model does not declare
ScanConfig(body) ==
    [path |-> body.path, scan_hidden_dirs |-> body.scan_hidden_dirs,
     scan_hidden_files |-> body.scan_hidden_files]

\* SearchScanConfig(**body): the model has all five fields
SearchScanConfig(body) ==
    [path |-> body.path, scan_hidden_dirs |-> body.scan_hidden_dirs,
     scan_hidden_files |-> body.scan_hidden_files,
     search_file_names |-> body.search_file_names,
     search_file_extensions |-> body.search_file_extensions]

\* The model the handler's signature parses the request into:
\* `config: ScanConfig` in server.py, `config: SearchScanConfig` in
\* mcp_server.py
ParseConfig(ep, body) ==
    IF ep = "server" THEN ScanConfig(body) ELSE SearchScanConfig(body)

\* config.model_dump(mode="json"): one key per field of the model (a set
\* is written as an array, which the peer reads back into a set)
ModelDump(cfg) == [f \in DOMAIN cfg |-> cfg[f]]

\* The configuration a peer's /fs/search-directory/ endpoint reads from a
\* posted body: SearchScanConfig, a field the body lacks at its default
PeerSearchConfig(body) ==
    [f \in DOMAIN DefaultRequest |->
        IF f \in DOMAIN body THEN body[f] ELSE DefaultRequest[f]]

\* search_directory_lan up to asyncio.gather: the payload, and one _fetch
\* task per peer
LanRequest ==
    /\ lpc = "idle"
    /\ payload' = ModelDump(ParseConfig(endpoint, request))
    /\ fetch' = [s \in servers |-> [st |-> "pending", reply |-> NoReply, item |-> NoItem]]
    /\ lpc' = "gathering"
    /\ UNCHANGED <<servers, endpoint, request, results, host_results, scanVars, discVars, fin, fout>>

\* the task of peer s can run up to its session.post: gather has made the
\* task, and no task waits for another
CanStart(s) == lpc = "gathering" /\ fetch[s].st = "pending"

\* _fetch(s) issues its request
FetchStart(s) ==
    /\ CanStart(s)
    /\ fetch' = [fetch EXCEPT ![s].st = "inflight"]
    /\ UNCHANGED <<servers, endpoint, request, payload, lpc, results, host_results, scanVars, discVars, fin, fout>>

\* _fetch(s) meets its reply and returns
FetchEnd(s) ==
    /\ lpc = "gathering"
    /\ fetch[s].st = "inflight"
    /\ \E reply \in Replies :
          fetch' = [fetch EXCEPT ![s] = [st |-> "done", reply |-> reply,
                                         item |-> Fetch(s, reply)]]
    /\ UNCHANGED <<servers, endpoint, request, payload, lpc, results, host_results, scanVars, discVars, fin, fout>>

\* The members of a set of peers, in the order the set is iterated
RECURSIVE SeqOf(_)
SeqOf(S) ==
    IF S = {} THEN << >>
    ELSE LET x == CHOOSE y \in S : TRUE IN << x >> \o SeqOf(S \ {x})

\* gather returning as soon as one task has ended
SomeFetched == servers = {} \/ \E s \in servers : fetch[s].st = "done"
\* gather returns when every task has ended
AllFetched == \A s \in servers : fetch[s].st = "done"

\* await asyncio.gather(..., return_exceptions=True) returns the list of
\* what the tasks returned
Gathered ==
    /\ lpc = "gathering"
    /\ AllFetched
    /\ results' = [i \in 1..Cardinality(servers) |-> fetch[SeqOf(servers)[i]].item]
    /\ lpc' = "gathered"
    /\ UNCHANGED <<servers, endpoint, request, payload, fetch, host_results, scanVars, discVars, fin, fout>>

\* the loop over results: an exception is skipped, any other item is
\* stored under its server
RECURSIVE HostResults(_, _)
HostResults(items, acc) ==
    IF items = << >> THEN acc
    ELSE IF Head(items).exc THEN HostResults(Tail(items), acc)
    ELSE HostResults(Tail(items),
                     Put(acc, Head(items).server, Head(items).response))

\* search_directory_lan from the loop over results to its return
Aggregate ==
    /\ lpc = "gathered"
    /\ host_results' = HostResults(results, << >>)
    /\ lpc' = "returned"
    /\ UNCHANGED <<servers, endpoint, request, payload, fetch, results, scanVars, discVars, fin, fout>>

\* -------------------------------------------------------------- discovery

\* An IPv4 address is its four octets.  hb host bits of an octet are cleared
\* for the network address and set for the broadcast address.
HostBits(prefix, k) ==
    LET nb == prefix - 8 * (k - 1)
    IN 8 - (IF nb < 0 THEN 0 ELSE IF nb > 8 THEN 8 ELSE nb)
NetworkAddress(ip, prefix) ==
    [k \in 1..4 |-> ip[k] - (ip[k] % (2 ^ HostBits(prefix, k)))]
BroadcastAddress(ip, prefix) ==
    [k \in 1..4 |-> NetworkAddress(ip, prefix)[k] + (2 ^ HostBits(prefix, k)) - 1]

\* ipaddress.IPv4Network(f"{ip}/{prefix}", strict=False)
IPv4Network(ip, prefix) == [addr |-> NetworkAddress(ip, prefix), prefix |-> prefix]
\* ip in network
InNetwork(ip, net) == NetworkAddress(ip, net.prefix) = net.addr

\* The netmask given as a dotted address: the number of leading one bits of
\* an octet, and whether the four octets are ones followed by zeros
OctetBits(o) ==
    IF \E b \in 0..8 : o = 256 - (2 ^ (8 - b))
    THEN CHOOSE b \in 0..8 : o = 256 - (2 ^ (8 - b))
    ELSE 0 - 1
OnesThenZeros(m) ==
    /\ \A k \in 1..4 : OctetBits(m[k]) >= 0
    /\ \A k \in 1..3 : m[k] # 255 => m[k + 1] = 0
PrefixOf(m) == OctetBits(m[1]) + OctetBits(m[2]) + OctetBits(m[3]) + OctetBits(m[4])
Inverted(m) == [k \in 1..4 |-> 255 - m[k]]
\* IPv4Network's reading of the mask: a netmask, else a hostmask, else
\* ValueError (valid = FALSE)
ParseMask(m) ==
    IF OnesThenZeros(m) THEN [valid |-> TRUE, prefix |-> PrefixOf(m)]
    ELSE IF OnesThenZeros(Inverted(m))
         THEN [valid |-> TRUE, prefix |-> PrefixOf(Inverted(m))]
         ELSE [valid |-> FALSE, prefix |-> 0]

\* The properties of ipaddress.IPv4Address that _local_ipv4_networks reads
IsLoopback(ip) == InNetwork(ip, IPv4Network(<<127, 0, 0, 0>>, 8))
IsLinkLocal(ip) == InNetwork(ip, IPv4Network(<<169, 254, 0, 0>>, 16))
IsMulticast(ip) == InNetwork(ip, IPv4Network(<<224, 0, 0, 0>>, 4))
IsUnspecified(ip) == ip = <<0, 0, 0, 0>>
\* is_private: the address is in one of the networks of the IANA
\* special-purpose registry that the ipaddress module lists
PrivateNetworks ==
    { IPv4Network(<<0, 0, 0, 0>>, 8), IPv4Network(<<10, 0, 0, 0>>, 8),
      IPv4Network(<<127, 0, 0, 0>>, 8), IPv4Network(<<169, 254, 0, 0>>, 16),
      IPv4Network(<<172, 16, 0, 0>>, 12), IPv4Network(<<192, 0, 0, 0>>, 29),
      IPv4Network(<<192, 0, 0, 170>>, 31), IPv4Network(<<192, 0, 2, 0>>, 24),
      IPv4Network(<<192, 168, 0, 0>>, 16), IPv4Network(<<198, 18, 0, 0>>, 15),
      IPv4Network(<<198, 51, 100, 0>>, 24), IPv4Network(<<203, 0, 113, 0>>, 24),
      IPv4Network(<<240, 0, 0, 0>>, 4), IPv4Network(<<255, 255, 255, 255>>, 32) }
IsPrivate(ip) == \E net \in PrivateNetworks : InNetwork(ip, net)

\* An interface: whether it has an AF_INET entry, and that entry's first
\* addr and netmask
Iface(addr, netmask) == [inet |-> TRUE, addr |-> addr, netmask |-> netmask]
NoInet == [inet |-> FALSE, addr |-> <<0, 0, 0, 0>>, netmask |-> <<0, 0, 0, 0>>]

\* The network one interface contributes (a set of at most one network):
\* the with-block of _local_ipv4_networks
IfaceNetworks(iface) ==
    IF ~iface.inet THEN {}
    ELSE IF \/ IsLoopback(iface.addr)
            \/ IsLinkLocal(iface.addr)
            \/ IsMulticast(iface.addr)
            \/ IsUnspecified(iface.addr)
            \/ ~IsPrivate(iface.addr)
         THEN {}
         ELSE IF ~ParseMask(iface.netmask).valid THEN {}
              ELSE {IPv4Network(iface.addr, ParseMask(iface.netmask).prefix)}

\* _local_ipv4_networks()
LocalIPv4Networks(ifs) == UNION {IfaceNetworks(ifs[i]) : i \in 1..Len(ifs)}

\* The addresses at which something can answer a probe; every other
\* address of a network stays silent
Universe ==
    { <<10, 0, 0, 1>>, <<10, 0, 0, 2>>, <<10, 0, 0, 3>>,
      <<192, 168, 1, 6>>, <<192, 1, 0, 1>>, <<198, 18, 0, 6>> }

\* network.hosts(): every address of the network but, up to /30, its
\* network and broadcast addresses
NetworkHosts(net) ==
    { ip \in Universe :
        /\ InNetwork(ip, net)
        /\ net.prefix <= 30 =>
              /\ ip # net.addr
              /\ ip # BroadcastAddress(net.addr, net.prefix) }

\* _reverse_lookup(ip): the host name, or "" for None
Hostname(ip) ==
    IF ip \in {<<10, 0, 0, 2>>, <<192, 168, 1, 6>>} THEN "host-a" ELSE ""
\* str(ip)
Dotted(ip) == <<"ip", ip>>
\* hostname or str(ip)
Identifier(ip) == IF Hostname(ip) # "" THEN <<"name", Hostname(ip)>> ELSE Dotted(ip)

\* What a health probe meets
ProbeOutcomes ==
    { [kind |-> "response", status |-> 200], [kind |-> "response", status |-> 503],
      [kind |-> "timeout", status |-> 0], [kind |-> "connection error", status |-> 0] }

\* _is_healthy that takes any response for a healthy server
IsHealthyAnyStatus(outcome) == outcome.kind = "response"
\* _is_healthy(ip): the status is 200; ClientError and TimeoutError give False
IsHealthy(outcome) == outcome.kind = "response" /\ outcome.status = 200

\* The interfaces a machine can have: loopback, a /30 in 10.0.0.0/8 (twice,
\* for two addresses of the same network), a /24 and a /8 mask on a
\* 192.168 address, the whole 10.0.0.0/8, a benchmarking address, a public
\* address, link-local, multicast and unspecified addresses, a mask that is
\* no mask, a hostmask, and an interface without IPv4
Candidates ==
    << Iface(<<127, 0, 0, 1>>, <<255, 0, 0, 0>>),
       Iface(<<10, 0, 0, 1>>, <<255, 255, 255, 252>>),
       Iface(<<10, 0, 0, 2>>, <<255, 255, 255, 252>>),
       Iface(<<192, 168, 1, 5>>, <<255, 255, 255, 0>>),
       Iface(<<192, 168, 1, 5>>, <<255, 0, 0, 0>>),
       Iface(<<10, 0, 0, 1>>, <<255, 0, 0, 0>>),
       Iface(<<198, 18, 0, 5>>, <<255, 255, 255, 252>>),
       Iface(<<8, 8, 8, 8>>, <<255, 255, 255, 0>>),
       Iface(<<169, 254, 0, 3>>, <<255, 255, 0, 0>>),
       Iface(<<224, 0, 0, 1>>, <<255, 0, 0, 0>>),
       Iface(<<0, 0, 0, 0>>, <<0, 0, 0, 0>>),
       Iface(<<10, 0, 0, 1>>, <<255, 0, 255, 0>>),
       Iface(<<10, 0, 0, 1>>, <<0, 0, 0, 3>>),
       NoInet >>

\* netifaces.interfaces(): no interface, one, or two of the candidates
InterfaceChoices ==
    { << >> }
    \cup { << Candidates[i] >> : i \in 1..Len(Candidates) }
    \cup { << Candidates[i], Candidates[j] >> :
             <<i, j>> \in {p \in (1..Len(Candidates)) \X (1..Len(Candidates)) : p[1] < p[2]} }

\* One probe task per host of each network
Tasks(nets) == UNION { {<<net, ip>> : ip \in NetworkHosts(net)} : net \in nets }

NoOutcome == [kind |-> "none", status |-> 0]

\* _discover, lines 99-112: enumerate the networks; with none, return the
\* empty set; otherwise gather one _scan_network per network, each
\* creating one probe task per host
LocalNetworks ==
    /\ disc_pc = "idle"
    /\ LET nets == LocalIPv4Networks(interfaces)
       IN /\ subnets' = nets
          /\ IF nets = {}
             THEN disc_pc' = "returned" /\ probes' = probes
             ELSE /\ disc_pc' = "scanning"
                  /\ probes' = [t \in Tasks(nets) |->
                                   [st |-> "pending", outcome |-> NoOutcome]]
    /\ UNCHANGED <<interfaces, permits, found, scanVars, lanVars, fin, fout>>

\* probe(ip) with one semaphore per _scan_network: the cap counts the
\* probes of t's own network only
ProbeStartPerSubnet(t) ==
    /\ disc_pc = "scanning"
    /\ probes[t].st = "pending"
    /\ Cardinality({u \in DOMAIN probes :
                       u[1] = t[1] /\ probes[u].st = "probing"}) < MAX_CONNS
    /\ probes' = [probes EXCEPT ![t].st = "probing"]
    /\ permits' = permits + 1
    /\ UNCHANGED <<interfaces, subnets, disc_pc, found, scanVars, lanVars, fin, fout>>

\* probe(ip) enters `async with semaphore` and issues its GET
ProbeStart(t) ==
    /\ disc_pc = "scanning"
    /\ probes[t].st = "pending"
    /\ permits < MAX_CONNS
    /\ probes' = [probes EXCEPT ![t].st = "probing"]
    /\ permits' = permits + 1
    /\ UNCHANGED <<interfaces, subnets, disc_pc, found, scanVars, lanVars, fin, fout>>

\* probe(ip) from the answer of _is_healthy to its end: a healthy address
\* is looked up and its identifier added to hits; the semaphore is released
ProbeEnd(t) ==
    /\ disc_pc = "scanning"
    /\ probes[t].st = "probing"
    /\ \E outcome \in ProbeOutcomes :
          /\ probes' = [probes EXCEPT ![t] = [st |-> "done", outcome |-> outcome]]
          /\ found' = IF IsHealthy(outcome) THEN found \cup {Identifier(t[2])}
                      ELSE found
    /\ permits' = permits - 1
    /\ UNCHANGED <<interfaces, subnets, disc_pc, scanVars, lanVars, fin, fout>>

\* both gathers have returned: _discover returns found
DiscoverReturn ==
    /\ disc_pc = "scanning"
    /\ \A t \in DOMAIN probes : probes[t].st = "done"
    /\ disc_pc' = "returned"
    /\ UNCHANGED <<interfaces, subnets, probes, permits, found, scanVars, lanVars, fin, fout>>

\* ------------------------------------------------------------ specification

Next ==
    \/ ScanDirMissing
    \/ Skim
    \/ Deploy
    \/ KillSwitch
    \/ JoinThreads
    \/ Summary
    \/ SearchScan
    \/ ShallowScan
    \/ \E w \in Workers : WorkerTimeout(w)
    \/ \E w \in Workers : WorkerExit(w)
    \/ \E w \in Workers : WorkerTake(w)
    \/ \E w \in Workers : CrawlEntry(w)
    \/ \E w \in Workers : CrawlFail(w)
    \/ \E w \in Workers : CrawlDone(w)

Spec == Init /\ [][Next]_vars

\* The server serving one search_directory_lan request over a peer set
LanInit ==
    /\ ScanIdle
    /\ DiscIdle
    /\ FilterIdle
    /\ servers \in SUBSET Peers
    /\ lpc = "idle"
    /\ fetch = << >>
    /\ results = << >>
    /\ host_results = << >>
    /\ endpoint \in {"server", "mcp"}
    /\ request \in Requests
    /\ payload = [path |-> << >>]

LanNext ==
    \/ LanRequest
    \/ \E s \in servers : FetchStart(s)
    \/ \E s \in servers : FetchEnd(s)
    \/ Gathered
    \/ Aggregate

LanSpec == LanInit /\ [][LanNext]_vars

\* ------------------------------------------------------- filter calls

\* The calls of _ignore_dir that a scan makes: path is entry.path and name
\* is entry.name, the last component of path
IgnoreDirCalls ==
    { [fn |-> "_ignore_dir", path |-> p, name |-> BaseName(p),
       ignore_dirs |-> ig, scan_hidden |-> sh] :
        p \in { <<"/","h","/","r","/","c">>, <<"/","h","/","r","/","C">>,
                <<"/","h","/","r","/",".","c">>, <<"/","h","/","c","/","x">> },
        ig \in SUBSET { <<"c">>, <<".","c">>, <<"/","h","/","r","/","C">>,
                        <<"/","h","/","c">> },
        sh \in BOOLEAN }

\* The calls of _should_consider_file
ConsiderFileCalls ==
    { [fn |-> "_should_consider_file", filename |-> f, scan_hidden |-> sh,
       search_file_names |-> ns, search_file_extensions |-> es] :
        f \in { <<"f",".","t">>, <<".","f",".","t">>, <<"F",".","T">>,
                <<"g",".","t","x">>, <<"t">> },
        sh \in BOOLEAN,
        ns \in { None, Some({}), Some({<<"F">>}), Some({<<"g">>, <<"x">>}) },
        es \in { None, Some({}), Some({<<"T">>}), Some({<<"t","x">>, <<"f">>}) } }

\* the call of _ignore_dir returns
ApplyIgnoreDir ==
    /\ fin.fn = "_ignore_dir"
    /\ fout = NoneYet
    /\ fout' = << IgnoreDir(fin.path, fin.name, fin.ignore_dirs, fin.scan_hidden) >>
    /\ UNCHANGED <<fin, scanVars, lanVars, discVars>>

\* the call of _should_consider_file returns
ApplyShouldConsiderFile ==
    /\ fin.fn = "_should_consider_file"
    /\ fout = NoneYet
    /\ fout' = << ShouldConsiderFile(fin.filename, fin.scan_hidden,
                                     fin.search_file_names,
                                     fin.search_file_extensions) >>
    /\ UNCHANGED <<fin, scanVars, lanVars, discVars>>

\* One call of one of the two filter predicates, on any of the arguments
FilterInit ==
    /\ ScanIdle
    /\ LanIdle
    /\ DiscIdle
    /\ fin \in IgnoreDirCalls \cup ConsiderFileCalls
    /\ fout = NoneYet

FilterNext ==
    \/ ApplyIgnoreDir
    \/ ApplyShouldConsiderFile

FilterSpec == FilterInit /\ [][FilterNext]_vars

\* One run of discover() on a machine with some interfaces
DiscInit ==
    /\ ScanIdle
    /\ LanIdle
    /\ FilterIdle
    /\ interfaces \in InterfaceChoices
    /\ subnets = {}
    /\ disc_pc = "idle"
    /\ probes = << >>
    /\ permits = 0
    /\ found = {}

DiscNext ==
    \/ LocalNetworks
    \/ \E t \in DOMAIN probes : ProbeStart(t)
    \/ \E t \in DOMAIN probes : ProbeEnd(t)
    \/ DiscoverReturn

DiscSpec == DiscInit /\ [][DiscNext]_vars

\* ------------------------------------------------------------ result trees

\* The Buckets a dict refers to, and every Bucket of the tree below b
ChildKeys(h, b) == {i \in 1..Len(h[b]) : h[b][i].val.t = "dict"}
ChildRefs(h, b) == {h[b][i].val.v : i \in ChildKeys(h, b)}
RECURSIVE TreeRefs(_, _)
TreeRefs(h, b) == {b} \cup UNION {TreeRefs(h, c) : c \in ChildRefs(h, b)}

\* The tree the caller gets once deep_scan has returned
Returned == dpc = "done"
Tree == TreeRefs(heap, scan_result)

\* work_q.join() has returned in begin_scan
BarrierReleased ==
    \/ dpc = "killing"
    \/ dpc = "done" /\ result_bucket # << >> /\ ~Has(heap[result_bucket], KError)

\* The entries of the directory a Bucket was created for
BucketEntries(b) ==
    IF Resolve(names, b) = NoDir THEN << >> ELSE Entries(names, Resolve(names, b))

\* The entries of b's directory that the walker records as child Buckets
\* and as files under the configuration
WantedDirs(b) ==
    {i \in 1..Len(BucketEntries(b)) :
        /\ BucketEntries(b)[i].kind = "dir"
        /\ ~IgnoreDir(Join(b, BucketEntries(b)[i].name), BucketEntries(b)[i].name,
                      config.ignore_dirs, config.scan_hidden_dirs)}
WantedFiles(b) ==
    {i \in 1..Len(BucketEntries(b)) :
        /\ BucketEntries(b)[i].kind = "file"
        /\ ShouldConsiderFile(BucketEntries(b)[i].name, config.scan_hidden_files,
                              config.search_file_names, config.search_file_extensions)}

\* Bucket b holds everything a complete enumeration of its directory records
FullyRecorded(b) ==
    /\ \A i \in WantedDirs(b) : Join(b, BucketEntries(b)[i].name) \in ChildRefs(heap, b)
    /\ Get(heap[b], KFiles).t = "list" =>
          \A i \in WantedFiles(b) :
             \E j \in 1..Len(Get(heap[b], KFiles).v) :
                Get(heap[b], KFiles).v[j] = BucketEntries(b)[i].name

Failed == {b \in DOMAIN enumerated : enumerated[b] = "failed"}

\* ------------------------------------------------------------------ claims

C2_DriverNeverBlockedForever ==
    dpc \notin {"done", "raised"} =>
        \/ dpc \in {"init", "skimmed"}
        \/ BarrierOpen
        \/ ThreadsEnded
        \/ \E w \in Workers : ItemReady(w) \/ Crawling(w)

\* C3: in the returned tree a Bucket with "__error__" has an empty
\* "__files__" and no child Bucket.
C3_ErrorBucketsAreEmpty ==
    Returned =>
        \A b \in Tree :
            Has(heap[b], KError) =>
                /\ Get(heap[b], KFiles) = ListV(<< >>)
                /\ ChildKeys(heap, b) = {}

\* C4: in the returned tree every Bucket has "__path__", an absolute path
\* string, and "__files__", a list.
C4_BucketsHavePathAndFiles ==
    Returned =>
        \A b \in Tree :
            /\ Has(heap[b], KPath)
            /\ Get(heap[b], KPath).t = "str"
            /\ StartsWith(Get(heap[b], KPath).v, <<"/">>)
            /\ Has(heap[b], KFiles)
            /\ Get(heap[b], KFiles).t = "list"

\* C5: in every Bucket the walker and the scan engine produce, no child
\* Bucket sits under "__path__", "__files__" or "__error__", and no key
\* occurs twice.
C5_NoDistinguishedKeyCollision ==
    \A b \in DOMAIN heap :
        /\ \A i \in ChildKeys(heap, b) : heap[b][i].k \notin {KPath, KFiles, KError}
        /\ \A i, j \in 1..Len(heap[b]) : heap[b][i].k = heap[b][j].k => i = j

\* C6: error isolation in the returned tree of a scan that ran begin_scan:
\* "__error__" text sits exactly on the Buckets whose own enumeration raised
\* OSError, and when some directory failed, every Bucket of the tree outside
\* the failed directories has been enumerated to the end and is fully
\* recorded.
C6_ErrorIsolation ==
    (Returned /\ result_bucket # << >>) =>
        /\ \A b \in Tree :
              (Has(heap[b], KError) /\ Get(heap[b], KError).t = "str") => b \in Failed
        /\ \A D \in Failed : Has(heap[D], KError) /\ Get(heap[D], KError).t = "str"
        /\ LET under == UNION {TreeRefs(heap, D) : D \in Failed}
           IN \A b \in Tree :
                 (Failed # {} /\ b \notin under) =>
                     /\ b \in DOMAIN enumerated
                     /\ enumerated[b] = "ok"
                     /\ FullyRecorded(b)

\* C6 witness: a returned tree in which a directory below the root failed
\* and a sibling of it was enumerated to the end, files listed
C6_Witness ==
    /\ Returned
    /\ result_bucket # << >>
    /\ \E D \in Failed \cap Tree, b \in Tree :
          /\ D # result_bucket
          /\ b # result_bucket
          /\ b \notin TreeRefs(heap, D)
          /\ enumerated[b] = "ok"
          /\ Get(heap[b], KFiles).t = "list"
          /\ Len(Get(heap[b], KFiles).v) > 0

\* The directory a Bucket's "__path__" names
PathEntries(b) ==
    IF Get(heap[b], KPath).t # "str" THEN << >>
    ELSE IF Resolve(names, Get(heap[b], KPath).v) = NoDir THEN << >>
    ELSE Entries(names, Resolve(names, Get(heap[b], KPath).v))

\* C7: in the returned tree every Bucket's "__files__" is a list of basenames
\* that consider_file accepts under the configuration and that are regular
\* files directly inside the directory "__path__" names.
C7_ListedFilesAreAcceptedFiles ==
    Returned =>
        \A b \in Tree :
            /\ Get(heap[b], KFiles).t = "list"
            /\ Get(heap[b], KPath).t = "str"
            /\ \A j \in 1..LenV(heap, Get(heap[b], KFiles)) :
                  LET f == Get(heap[b], KFiles).v[j]
                  IN /\ ShouldConsiderFile(f, config.scan_hidden_files,
                                           config.search_file_names,
                                           config.search_file_extensions)
                     /\ \E i \in 1..Len(PathEntries(b)) :
                           PathEntries(b)[i].name = f /\ PathEntries(b)[i].kind = "file"

\* C8: in the returned tree, for every child key k of a Bucket B, ignore_dir
\* rejects neither k nor the child's path, and the child's "__path__" is
\* join(B["__path__"], k).
C8_ChildPathIsJoinOfParentPath ==
    Returned =>
        \A b \in Tree :
            \A i \in ChildKeys(heap, b) :
                LET k == heap[b][i].k
                    child == heap[heap[b][i].val.v]
                IN /\ Get(heap[b], KPath).t = "str"
                   /\ Get(child, KPath).t = "str"
                   /\ Get(child, KPath).v = Join(Get(heap[b], KPath).v, k)
                   /\ ~IgnoreDir(Get(child, KPath).v, k, config.ignore_dirs,
                                 config.scan_hidden_dirs)

\* The paths of the real directories under the root: those reached through
\* directory entries only, never through a symbolic link
RECURSIVE RealPathsFrom(_, _)
RealPathsFrom(d, p) ==
    {p} \cup UNION { RealPathsFrom(Entries(names, d)[i].to, Join(p, Entries(names, d)[i].name)) :
                     i \in {j \in 1..Len(Entries(names, d)) : Entries(names, d)[j].kind = "dir"} }
RealPaths ==
    IF Resolve(names, root_path) = NoDir THEN {root_path}
    ELSE RealPathsFrom(Resolve(names, root_path), root_path)

\* Names that only a symbolic link or its target's contents could bring in
LinkNames == { <<"l">>, <<"u","p">>, <<"l","f">>, <<"s",".","t">> }

\* C9: symbolic links are never followed: no Bucket, work item or crawl
\* target is ever made for a path through a symbolic link, no Bucket has a
\* key or a listed file that is a link's name or a file of a link's target.
C9_SymlinksNeverFollowed ==
    /\ DOMAIN heap \subseteq RealPaths
    /\ \A i \in 1..Len(work_q) : work_q[i].path # << >> => work_q[i].path \in RealPaths
    /\ \A w \in Workers :
          /\ \A i \in 1..Len(crawl_targets[w]) : crawl_targets[w][i].path \in RealPaths
          /\ target[w] # << >> => target[w][1].path \in RealPaths
                                  /\ target[w][1].dir \notin {NoDir, 5}
    /\ \A b \in DOMAIN heap :
          /\ \A i \in 1..Len(heap[b]) : heap[b][i].k \notin LinkNames
          /\ Get(heap[b], KFiles).t = "list" =>
                \A j \in 1..Len(Get(heap[b], KFiles).v) :
                    Get(heap[b], KFiles).v[j] \notin LinkNames

\* C9 witness: the scan has returned after the root's link to a directory
\* and the links inside .h (one back to the root, one to a file) were read
C9_Witness ==
    /\ Returned
    /\ root_path \in DOMAIN enumerated
    /\ enumerated[root_path] = "ok"
    /\ Join(root_path, <<".","h">>) \in DOMAIN enumerated
    /\ enumerated[Join(root_path, <<".","h">>)] = "ok"

\* The counts of the returned tree: child keys over all Buckets, listed
\* files over all Buckets, Buckets with "__error__"
RECURSIVE TreeCounts(_, _)
TreeCounts(S, h) ==
    IF S = {} THEN <<0, 0, 0>>
    ELSE LET b == CHOOSE x \in S : TRUE
         IN Add3(<< IF Has(h[b], KError) THEN 1 ELSE 0,
                    Cardinality(ChildKeys(h, b)),
                    LenV(h, Get(h[b], KFiles)) >>,
                 TreeCounts(S \ {b}, h))

\* C10: the summary of a returned tree is (Buckets with "__error__", child
\* keys over all Buckets, listed files over all Buckets).
C10_SummaryCountsTree ==
    summary # << >> =>
        summary = TreeCounts(Tree, heap)

\* A dict up to the order of its keys and of its lists: the set of its
\* (key, value) pairs, a list as the number of times it holds each element
RECURSIVE Canon(_, _)
Canon(h, b) ==
    { << h[b][i].k,
         IF h[b][i].val.t = "dict" THEN [t |-> "dict", v |-> Canon(h, h[b][i].val.v)]
         ELSE IF h[b][i].val.t = "list"
              THEN [t |-> "list",
                    v |-> { <<x, Cardinality({j \in 1..Len(h[b][i].val.v) :
                                                 h[b][i].val.v[j] = x})>> :
                            x \in {h[b][i].val.v[j] : j \in 1..Len(h[b][i].val.v)} }]
              ELSE h[b][i].val >> : i \in 1..Len(h[b]) }

\* No directory of the scan raised OSError
StaticRun == Resolve(names, root_path) # NoDir /\ Failed = {}

\* C11: on a tree where no enumeration fails, whatever the interleaving of
\* the workers and however many were started, the tree deep_scan returns
\* equals, up to the order of keys and of file lists, the tree a single
\* thread produces; so two scans of the same tree return equal trees.
C11_DeepScanDeterministic ==
    (Returned /\ StaticRun) =>
        LET ref == DeepScanSequential(names, root_path, config)
        IN /\ ~ref.raised
           /\ Canon(heap, scan_result) = Canon(ref.heap, root_path)

\* C11 witness: a scan by two threads has returned a tree of at least four
\* Buckets without any failure
C11_Witness ==
    /\ Returned /\ StaticRun
    /\ workers_to_deploy = 2
    /\ \A w \in 1..2 : wpc[w] = "terminated"
    /\ Cardinality(Tree) >= 4
    /\ names = PlainNames
\* C12: every key of search_scan's mapping is the "__path__" of a Bucket of
\* the deep tree whose "__files__" is a non-empty list, and the list mapped
\* to the key is that Bucket's "__files__"; search_scan returns a mapping
\* whenever its deep scan returned.
C12_SearchFlattensDeepTree ==
    search_result.state # "none" =>
        /\ search_result.state = "returned"
        /\ \A i \in 1..Len(search_result.result) :
              LET e == search_result.result[i]
              IN /\ e.val.t = "list"
                 /\ Len(e.val.v) > 0
                 /\ \E b \in Tree : /\ Get(heap[b], KPath) = StrV(e.k)
                                    /\ Get(heap[b], KFiles) = e.val

\* C13: every Bucket of the deep tree without "__error__" and with a
\* non-empty "__files__" is a key of search_scan's mapping, whatever its
\* ancestors carry.
C13_SearchOmitsOnlyErrorBuckets ==
    search_result.state = "returned" =>
        \A b \in Tree :
            ( /\ ~Has(heap[b], KError)
              /\ Get(heap[b], KPath).t = "str"
              /\ Get(heap[b], KFiles).t = "list"
              /\ Len(Get(heap[b], KFiles).v) > 0 )
            => Has(search_result.result, Get(heap[b], KPath).v)

\* The normalized root path names no directory
RootMissing == Resolve(names, root_path) = NoDir

\* C14: when the root does not exist no scan mode raises; deep_scan yields
\* a Bucket of "__path__", an empty "__files__" and an "__error__" that says
\* the path does not exist, with no children, no worker started and summary
\* (1, 0, 0); search_scan yields an empty mapping; shallow_scan yields a
\* projection with the error set and empty dirs and files.
C14_RootNotFoundRecoverable ==
    RootMissing =>
        /\ dpc # "raised"
        /\ search_result.state # "raised"
        /\ dpc = "done" =>
              /\ Len(heap[scan_result]) = 3
              /\ Get(heap[scan_result], KPath) = StrV(root_path)
              /\ Get(heap[scan_result], KFiles) = ListV(<< >>)
              /\ Has(heap[scan_result], KError)
              /\ Get(heap[scan_result], KError).t = "str"
              /\ Get(heap[scan_result], KError).v =
                    <<"Provided path '">> \o root_path \o <<"' does not exist.">>
              /\ workers_to_deploy = 0
              /\ work_q = << >> /\ unfinished = 0
              /\ \A w \in Workers : wpc[w] = "unstarted"
        /\ summary # << >> => summary = <<1, 0, 0>>
        /\ search_result.state = "returned" => search_result.result = << >>
        /\ dpc = "shallow" =>
              /\ Get(shallow_result, PathKey) = StrV(root_path)
              /\ Get(shallow_result, DirsKey) = ListV(<< >>)
              /\ Get(shallow_result, FilesKey) = ListV(<< >>)
              /\ Has(shallow_result, KError)
              /\ Get(shallow_result, KError).t = "str"
              /\ Get(shallow_result, KError).v # << >>

\* C14 witness: search_scan has returned for a root that does not exist
C14_Witness == RootMissing /\ search_result.state = "returned"

\* C15: shallow_scan starts no worker and queues nothing, enumerates the
\* root only, and returns the root's path, the basenames of exactly the
\* root's non-ignored subdirectories and the root's accepted files, with
\* the error when the enumeration failed.
C15_ShallowScanIsRootProjection ==
    dpc = "shallow" =>
        /\ work_q = << >> /\ unfinished = 0 /\ workers_to_deploy = 0
        /\ \A w \in Workers : wpc[w] = "unstarted"
        /\ DOMAIN enumerated = {root_path}
        /\ \A c \in ChildRefs(heap, root_path) : heap[c] = NewBucket(c)
        /\ Get(shallow_result, PathKey) = StrV(root_path)
        /\ Get(shallow_result, DirsKey).t = "list"
        /\ Get(shallow_result, FilesKey).t = "list"
        /\ Has(shallow_result, KError) <=> enumerated[root_path] = "failed"
        /\ enumerated[root_path] = "ok" =>
              LET dirs == Get(shallow_result, DirsKey).v
                  files == Get(shallow_result, FilesKey).v
              IN /\ {dirs[i] : i \in 1..Len(dirs)} =
                       {BucketEntries(root_path)[i].name : i \in WantedDirs(root_path)}
                 /\ Len(dirs) = Cardinality(WantedDirs(root_path))
                 /\ {files[i] : i \in 1..Len(files)} =
                       {BucketEntries(root_path)[i].name : i \in WantedFiles(root_path)}
                 /\ Len(files) = Cardinality(WantedFiles(root_path))
\* What the aggregate holds for peer s
Entry(s) == Get(host_results, s)
IsErrorEntry(e) ==
    /\ e.count = 0
    /\ Len(e.result) = 1
    /\ e.result[1].k = KError
    /\ e.result[1].val.t = "list"
    /\ Len(e.result[1].val.v) >= 1

\* C16: the aggregate search_directory_lan returns has exactly the peer set
\* as its keys, whatever each peer's call met, and every peer that could
\* not be reached maps to count 0 and a non-empty "__error__" list.
C16_AggregateMapsExactlyThePeers ==
    lpc = "returned" =>
        /\ {host_results[i].k : i \in 1..Len(host_results)} = servers
        /\ Len(host_results) = Cardinality(servers)
        /\ \A s \in servers :
              fetch[s].reply.kind \in {"connection error", "timeout"}
                 => IsErrorEntry(Entry(s))

\* C16 witness: an aggregate over three peers of which one timed out, one
\* refused the connection and one answered
C16_Witness ==
    /\ lpc = "returned"
    /\ servers = Peers
    /\ \E a, b, c \in servers :
          /\ fetch[a].reply.kind = "timeout"
          /\ fetch[b].reply.kind = "connection error"
          /\ fetch[c].reply.kind = "response" /\ ~IsErrorEntry(Entry(c))

\* The call to peer s succeeded with a body that is JSON
SuccessfulJson(s) ==
    /\ fetch[s].reply.kind = "response"
    /\ fetch[s].reply.status \in 200..299
    /\ fetch[s].reply.body.json

\* C17: a peer's entry is the parsed (count, result) only if its call was
\* successful and returned valid JSON; after a connection error, a timeout,
\* invalid JSON or a status that is not 2xx the entry is
\* (0, {"__error__": [text]}).
C17_FailedCallsBecomeErrorEntries ==
    lpc = "returned" =>
        \A s \in servers :
            IF SuccessfulJson(s)
            THEN ~IsErrorEntry(Entry(s)) =>
                    /\ Entry(s).count = fetch[s].reply.body.obj.count.v
                    /\ Entry(s).result = fetch[s].reply.body.obj.result.v
            ELSE IsErrorEntry(Entry(s))

\* C18: every peer's request can be issued as soon as the dispatcher has
\* made its task, whatever the other requests are doing; the list of
\* results exists only after every peer's request has ended with a reply,
\* and holds one item per peer.
C18_FanOutWaitsForAllPeers ==
    /\ lpc = "gathering" =>
          \A s \in servers : fetch[s].st = "pending" => CanStart(s)
    /\ lpc \in {"gathered", "returned"} =>
          /\ \A s \in servers : fetch[s].st = "done" /\ fetch[s].reply.kind # "none"
          /\ Len(results) = Cardinality(servers)
          /\ \A s \in servers : \E i \in 1..Len(results) : results[i] = fetch[s].item

\* C18 witness: one peer's request has failed
\* while the requests to the other two are still in flight
C18_Witness ==
    /\ lpc = "gathering"
    /\ servers = Peers
    /\ \E a \in servers :
          /\ fetch[a].st = "done" /\ fetch[a].reply.kind = "connection error"
          /\ \A b \in servers \ {a} : fetch[b].st = "inflight"
\* The identifiers of the addresses whose probe has met status 200
Healthy200 ==
    { Identifier(t[2]) : t \in { u \in DOMAIN probes :
                                   /\ probes[u].st = "done"
                                   /\ probes[u].outcome.kind = "response"
                                   /\ probes[u].outcome.status = 200 } }

\* C19: the peer set holds an identifier only for an address whose probe
\* returned status 200 in this run; a probe that timed out, could not
\* connect or met another status adds nothing, and the run still ends
\* with every probe done and the peers of the healthy addresses.
C19_PeersAreHealthyAddresses ==
    /\ found \subseteq Healthy200
    /\ disc_pc = "returned" =>
          /\ \A t \in DOMAIN probes : probes[t].st = "done"
          /\ found = Healthy200

\* C19 witness: a run has returned a peer although other probes timed out,
\* could not connect and met status 503
C19_Witness ==
    /\ disc_pc = "returned"
    /\ found # {}
    /\ \A k \in {"timeout", "connection error"} :
          \E t \in DOMAIN probes : probes[t].outcome.kind = k
    /\ \E t \in DOMAIN probes : probes[t].outcome.status = 503

\* RFC 1918: 10.0.0.0/8, 172.16.0.0/12, 192.168.0.0/16
IsRFC1918(ip) ==
    \/ InNetwork(ip, IPv4Network(<<10, 0, 0, 0>>, 8))
    \/ InNetwork(ip, IPv4Network(<<172, 16, 0, 0>>, 12))
    \/ InNetwork(ip, IPv4Network(<<192, 168, 0, 0>>, 16))

\* C20: every address a discovery probes is an RFC 1918 address that is
\* not loopback, link-local, multicast or unspecified, whatever the
\* addresses and netmasks of the interfaces; an interface with an excluded
\* address contributes no network.
C20_OnlyPrivateAddressesProbed ==
    /\ \A t \in DOMAIN probes :
          /\ IsRFC1918(t[2])
          /\ ~IsLoopback(t[2]) /\ ~IsLinkLocal(t[2])
          /\ ~IsMulticast(t[2]) /\ ~IsUnspecified(t[2])
    /\ disc_pc # "idle" =>
          \A net \in subnets :
              \E i \in 1..Len(interfaces) :
                  /\ interfaces[i].inet
                  /\ IsRFC1918(interfaces[i].addr)
                  /\ InNetwork(interfaces[i].addr, net)

\* ------------------------------------------------------------ C21 .. C30

\* C21: a call of ignore_dir returns true if and only if name is in
\* ignore_dirs, or path is in ignore_dirs, or scan_hidden_dirs is false and
\* name begins with '.'; names and paths are matched case-sensitively.
C21_IgnoreDirIffListedOrHidden ==
    (fin.fn = "_ignore_dir" /\ fout # NoneYet) =>
        (fout[1] <=>
            \/ \E d \in fin.ignore_dirs : d = fin.name
            \/ \E d \in fin.ignore_dirs : d = fin.path
            \/ (fin.scan_hidden = FALSE /\ Len(fin.name) > 0 /\ fin.name[1] = "."))

\* A directory named C is kept although c is in ignore_dirs
C21_Witness ==
    /\ fin.fn = "_ignore_dir"
    /\ fin.name = <<"C">>
    /\ <<"c">> \in fin.ignore_dirs
    /\ fin.scan_hidden
    /\ fout = <<FALSE>>

\* (a), (b), (c) of consider_file for the call in fin
HiddenPasses == fin.scan_hidden \/ Head(fin.filename) # "."
NamePasses ==
    \/ ~fin.search_file_names.some
    \/ fin.search_file_names.set = {}
    \/ \E e \in fin.search_file_names.set :
            \E i \in 0..(Len(fin.filename) - Len(e)) :
                Lower(SubSeq(fin.filename, i + 1, i + Len(e))) = Lower(e)
ExtensionPasses ==
    \/ ~fin.search_file_extensions.some
    \/ fin.search_file_extensions.set = {}
    \/ \E e \in fin.search_file_extensions.set :
            LET n == Len(fin.filename)
                m == Len(e) + 1
            IN /\ m <= n
               /\ Lower(SubSeq(fin.filename, n - m + 1, n)) = <<".">> \o Lower(e)

\* C22: a call of consider_file returns true if and only if (a) hidden
\* files are scanned or the name does not begin with '.', (b) the name
\* filter is empty or absent or the lowercase of one of its elements is a
\* substring of the lowercased name, and (c) the extension filter is empty
\* or absent or the lowercased name ends with '.' + lower(ext) for one of
\* its elements.
C22_ConsiderFileIffAllThreePass ==
    (fin.fn = "_should_consider_file" /\ fout # NoneYet) =>
        (fout[1] <=> (HiddenPasses /\ NamePasses /\ ExtensionPasses))

\* Both filters are non-empty, the name passes and the extension does not:
\* the file is rejected
C22_Witness ==
    /\ fin.fn = "_should_consider_file"
    /\ Truthy(fin.search_file_names)
    /\ Truthy(fin.search_file_extensions)
    /\ HiddenPasses /\ NamePasses /\ ~ExtensionPasses
    /\ fout = <<FALSE>>

\* The Buckets that are items of the shared queue, and the Buckets whose
\* directory some worker is enumerating
QueuedBuckets == {work_q[i].bucket : i \in 1..Len(work_q)}
InHand == {target[w][1].bucket : w \in {v \in Workers : target[v] # << >>}}

\* C23: while the workers run, every child subdirectory a worker has
\* discovered is submitted to the shared queue as a work item of its own:
\* a non-root directory that is neither enumerated nor being enumerated is
\* an item of the queue, where any idle worker can pick it up.
C23_EveryDirectoryIsAQueuedItem ==
    dpc = "joining" =>
        \A b \in DOMAIN heap \ {result_bucket} :
            (b \notin DOMAIN enumerated /\ b \notin InHand) => b \in QueuedBuckets

\* The threads begin_scan has started, and the root's immediate children
Started == {w \in Workers : wpc[w] # "unstarted"}
Live == {w \in Workers : wpc[w] \in {"waiting", "working"}}
RootChildren == ChildRefs(heap, result_bucket)
RootErrored ==
    dpc = "done" /\ result_bucket # << >> /\ Has(heap[result_bucket], KError)

\* What begin_scan has done at each of its positions: nothing before and
\* during the skim, nothing when it was not called (the root does not
\* exist) or when the root Bucket has __error__ (the Bucket is the result),
\* and otherwise min(children, MAX_WORKERS) threads
NoneDeployed == work_q = << >> /\ unfinished = 0 /\ Started = {}
DeployedAsSkimmed ==
    /\ (dpc \in {"init", "skimmed", "raised"} \/ result_bucket = << >>) => NoneDeployed
    /\ RootErrored => (NoneDeployed /\ scan_result = result_bucket)
    /\ (result_bucket # << >> /\ dpc \in {"joining", "killing", "done"} /\ ~RootErrored) =>
          /\ workers_to_deploy = (IF Cardinality(RootChildren) <= MAX_WORKERS
                                  THEN Cardinality(RootChildren) ELSE MAX_WORKERS)
          /\ Started = 1..workers_to_deploy
    /\ Cardinality(Live) <= MAX_WORKERS

\* The step that follows a skim without error puts exactly one item per
\* immediate child Bucket of the root
OneItemPerRootChild ==
    (dpc = "skimmed" /\ dpc' # "skimmed") =>
        /\ Len(work_q') = Cardinality(RootChildren)
        /\ {work_q'[i].bucket : i \in 1..Len(work_q')} = RootChildren
        /\ unfinished' = Cardinality(RootChildren)

\* C24: begin_scan skims the root first; a root Bucket with __error__ is
\* returned with no item submitted and no worker started; otherwise one
\* item is submitted per immediate child Bucket and exactly
\* min(children, MAX_WORKERS) workers are started (none for a root without
\* subdirectories), and never more than MAX_WORKERS workers are live.
C24_BeginScanDeploysMinWorkers ==
    []DeployedAsSkimmed /\ [][OneItemPerRootChild]_vars

\* The root has more children than MAX_WORKERS: MAX_WORKERS threads run
C24_Witness ==
    /\ dpc = "joining"
    /\ Cardinality(RootChildren) > MAX_WORKERS
    /\ workers_to_deploy = MAX_WORKERS
    /\ Cardinality(Live) = MAX_WORKERS

\* The Buckets worker w holds a reference to: its current target and the
\* targets in its list
Owned(w) ==
    {target[w][i].bucket : i \in 1..Len(target[w])}
    \cup {crawl_targets[w][i].bucket : i \in 1..Len(crawl_targets[w])}

\* Bucket b was created for directory c or for a directory beneath it
IsUnder(b, c) == b = c \/ StartsWith(b, c \o <<"/">>)

\* At every moment the Buckets of distinct workers are disjoint: each
\* worker's Buckets lie at or beneath one child of the root, a different
\* child for each worker, and none is the root Bucket
OwnedDisjoint ==
    /\ \A w \in Workers :
          Owned(w) # {} =>
             /\ result_bucket \notin Owned(w)
             /\ \E c \in RootChildren : \A b \in Owned(w) : IsUnder(b, c)
    /\ \A v, w \in Workers : v # w => Owned(v) \cap Owned(w) = {}

\* The Buckets a step writes or creates
Written == {b \in DOMAIN heap' : b \notin DOMAIN heap \/ heap'[b] # heap[b]}

\* Once the threads are started, a step that writes Buckets is the step of
\* one working thread and writes only Buckets that thread holds, never the
\* root Bucket; the steps of begin_scan write none
WritesOwnBuckets ==
    /\ (dpc \in {"skimmed", "joining", "killing"} /\ dpc' # dpc) => heap' = heap
    /\ (dpc \in {"joining", "killing"} /\ heap' # heap) =>
          \E w \in Workers :
             /\ (wpc[w] = "working" \/ wpc'[w] = "working")
             /\ \A v \in Workers \ {w} :
                   wpc'[v] = wpc[v] /\ target'[v] = target[v]
                   /\ crawl_targets'[v] = crawl_targets[v]
             /\ \A b \in Written :
                   /\ b # result_bucket
                   /\ b \in Owned(w)' \cup Owned(w)
                   /\ \A v \in Workers \ {w} : b \notin Owned(v)

\* C25: no two workers ever write to the same Bucket: the Buckets distinct
\* workers are mutating are disjoint (each worker writes only the Bucket
\* of its work item and Buckets beneath it), and the driver writes no
\* Bucket while workers run.
C25_WorkersWriteDisjointBuckets ==
    []OwnedDisjoint /\ [][WritesOwnBuckets]_vars

\* Two workers are each part-way through a directory of their own, having
\* written to its Bucket
C25_Witness ==
    \E v, w \in Workers :
        /\ v # w
        /\ Crawling(v) /\ Crawling(w)
        /\ target[v][1].i > 0 /\ target[w][1].i > 0
        /\ Get(heap[target[v][1].bucket], KFiles).t = "list"
        /\ Len(Get(heap[target[v][1].bucket], KFiles).v) > 0

\* C26: a directory D whose enumeration stalls delays only its own
\* subtree: while worker w is inside the enumeration of D and another
\* worker is waiting or working, the only directories that cannot be
\* enumerated before w has finished D (the ones in w's own list) are
\* descendants of D.
C26_StalledDirectoryDelaysOnlyItsSubtree ==
    \A w \in Workers :
        (Crawling(w) /\ \E v \in Workers \ {w} : wpc[v] \in {"waiting", "working"}) =>
            \A i \in 1..Len(crawl_targets[w]) :
                IsUnder(crawl_targets[w][i].bucket, target[w][1].bucket)

\* The threads that have ended, and the items of the queue by kind
Ended == {w \in Workers : wpc[w] \in {"terminated", "crashed"}}
SentinelsQueued == {i \in 1..Len(work_q) : work_q[i] = Sentinel}
RealQueued == {i \in 1..Len(work_q) : work_q[i] # Sentinel}

\* C27: a started worker is waiting or working until it dequeues a
\* sentinel; sentinels are in the queue only after work_q.join() has
\* returned, one per started worker, and each ended worker has consumed
\* one; so no worker has ended while a real item is queued or in progress,
\* and no real item is in progress once the sentinels are put.
C27_WorkersEndOnlyOnSentinel ==
    /\ \A w \in Ended :
          /\ BarrierReleased
          /\ RealQueued = {}
          /\ \A v \in Workers : wpc[v] # "working"
    /\ SentinelsQueued # {} => (BarrierReleased /\ RealQueued = {})
    /\ BarrierReleased =>
          /\ Cardinality(SentinelsQueued) + Cardinality(Ended) = workers_to_deploy
          /\ unfinished = Cardinality(SentinelsQueued)
          /\ \A v \in Workers : wpc[v] # "working"

\* The probes that hold the semaphore, and the ones that wait for it
InFlight == {t \in DOMAIN probes : probes[t].st = "probing"}
Pending == {t \in DOMAIN probes : probes[t].st = "pending"}

\* The host addresses of a network: its addresses without, up to /30, the
\* network and the broadcast address
IsHostOf(ip, net) ==
    /\ InNetwork(ip, net)
    /\ net.prefix <= 30 =>
          ip \notin {net.addr, BroadcastAddress(net.addr, net.prefix)}

\* C28: the number of health probes in flight never exceeds MAX_CONNS,
\* counted over all subnets together; every host address of every
\* enumerated subnet has a probe, a waiting probe can start whenever fewer
\* than MAX_CONNS are in flight (every permit taken is held by a probe in
\* flight), and when the discovery returns every one of them has been
\* probed.
C28_ProbesCappedGloballyAllHostsProbed ==
    /\ Cardinality(InFlight) <= MAX_CONNS
    /\ permits = Cardinality(InFlight)
    /\ (disc_pc \in {"scanning", "returned"} /\ subnets # {}) =>
          \A net \in subnets : \A ip \in Universe :
              IsHostOf(ip, net) => <<net, ip>> \in DOMAIN probes
    /\ (disc_pc = "returned" /\ subnets # {}) =>
          \A t \in DOMAIN probes : probes[t].st = "done"

\* MAX_CONNS probes of two different subnets are in flight and a further
\* probe waits for a permit
C28_Witness ==
    /\ Cardinality(InFlight) = MAX_CONNS
    /\ \E t, u \in InFlight : t[1] # u[1]
    /\ Pending # {}

\* C29: the body posted to every peer carries the caller's path,
\* scan_hidden_dirs, scan_hidden_files, search_file_names and
\* search_file_extensions unchanged, so that each peer searches with the
\* caller's name and extension filters.
C29_FanOutForwardsSearchConfig ==
    (lpc # "idle" /\ servers # {}) =>
        \A f \in {"path", "scan_hidden_dirs", "scan_hidden_files",
                  "search_file_names", "search_file_extensions"} :
            PeerSearchConfig(payload)[f] = request[f]

\* begin_scan has returned to _scan_dir
BeginScanReturned == dpc = "done" /\ result_bucket # << >>

\* C30: every item a worker has dequeued is acknowledged exactly once when
\* the worker is done with it, whether its directories were enumerated or
\* failed: the unacknowledged items are never fewer than zero and are
\* exactly the items still queued plus the ones workers are processing;
\* when begin_scan returns the queue is empty and nothing is
\* unacknowledged.
C30_QueueAccountingBalanced ==
    /\ unfinished >= 0
    /\ unfinished = Len(work_q) + Cardinality({w \in Workers : wpc[w] = "working"})
    /\ BeginScanReturned => (work_q = << >> /\ unfinished = 0)

\* ------------------------------------------------------------------- C31

\* The number of places where Bucket b waits for its enumeration or is
\* under it: items of the queue, entries of the workers' lists, targets
HeldCount(b) ==
    Cardinality({i \in 1..Len(work_q) : work_q[i].bucket = b})
    + Cardinality({wi \in Workers \X (1..Cardinality(DOMAIN heap)) :
                      /\ wi[2] <= Len(crawl_targets[wi[1]])
                      /\ crawl_targets[wi[1]][wi[2]].bucket = b})
    + Cardinality({w \in Workers : target[w] # << >> /\ target[w][1].bucket = b})
DoneCount(b) == IF b \in DOMAIN enumerated THEN 1 ELSE 0

\* No name occurs twice in the __files__ list of Bucket b
FilesDistinct(b) ==
    Get(heap[b], KFiles).t = "list" =>
        \A i, j \in 1..Len(Get(heap[b], KFiles).v) :
            i # j => Get(heap[b], KFiles).v[i] # Get(heap[b], KFiles).v[j]

\* The root is enumerated by the skim and handed to nobody; once the items
\* are put, every other Bucket is in exactly one place or has been
\* enumerated, never both; once the barrier has released every Bucket has
\* been enumerated; no Bucket lists a file twice
EnumeratedOnce ==
    result_bucket # << >> =>
        /\ HeldCount(result_bucket) = 0
        /\ result_bucket \in DOMAIN enumerated
        /\ \A b \in DOMAIN heap \ {result_bucket} :
              HeldCount(b) + DoneCount(b) =
                  (IF dpc \in {"joining", "killing"} \/ BarrierReleased THEN 1 ELSE 0)
        /\ BarrierReleased => DOMAIN heap \subseteq DOMAIN enumerated
        /\ \A b \in DOMAIN heap : FilesDistinct(b)

\* An enumeration never starts over, and one that has ended stays ended
NeverAgain ==
    /\ \A w \in Workers :
          (/\ target[w] # << >> /\ target'[w] # << >>
           /\ target'[w][1].bucket = target[w][1].bucket) =>
              target'[w][1].i >= target[w][1].i
    /\ \A b \in DOMAIN enumerated :
          b \in DOMAIN enumerated' /\ enumerated'[b] = enumerated[b]

====
